---- MODULE Spec2Model ----
(***************************************************************************)
(* Transform-and-load pipeline of nusantara-food-watch: the wide-to-long   *)
(* parser, the record resolver, the batched upsert engines and the chunked *)
(* migration driver, as state machines over the fact store (fact_prices)   *)
(* and the legacy table (harga_pangan).                                    *)
(*                                                                         *)
(* Strings that the code takes apart (date keys, price tokens, region      *)
(* names) are sequences of one-character strings; strings that the code    *)
(* only compares are TLA+ strings.  A nullable value is <<>> (NULL / None  *)
(* / NaN) or <<v>>.                                                        *)
(***************************************************************************)
EXTENDS Integers, Sequences, FiniteSets, TLC

NULL == <<>>
Some(v) == <<v>>
IsNull(o) == o = <<>>
Val(o) == o[1]

Min(a, b) == IF a < b THEN a ELSE b

\* dict.get(key): the value, or None
Lookup(map, key) == IF key \in DOMAIN map THEN Some(map[key]) ELSE NULL

(***************************************************************************)
(* Python string operations used by the parser                             *)
(***************************************************************************)

\* sub in s
Contains(s, sub) ==
    \E j \in 0..(Len(s) - Len(sub)) : SubSeq(s, j + 1, j + Len(sub)) = sub

\* s.split(sep) for a one-character separator: empty pieces are kept
RECURSIVE SplitOn(_, _)
SplitOn(s, sep) ==
    IF \A j \in 1..Len(s) : s[j] # sep
    THEN <<s>>
    ELSE LET j == CHOOSE j \in 1..Len(s) :
                      s[j] = sep /\ \A k \in 1..(j - 1) : s[k] # sep
         IN  <<SubSeq(s, 1, j - 1)>> \o SplitOn(SubSeq(s, j + 1, Len(s)), sep)

\* s.split(): split on runs of blanks, no empty pieces
SplitWs(s) == SelectSeq(SplitOn(s, " "), LAMBDA p : p # <<>>)

\* s.replace(ch, '')
Remove(s, ch) == SelectSeq(s, LAMBDA c : c # ch)

Zfill2_keeps(s) == s

\* s.zfill(2)
Zfill2(s) ==
    IF Len(s) >= 2 THEN s
    ELSE IF Len(s) = 0 THEN <<"0", "0">>
    ELSE IF s[1] \in {"+", "-"} THEN <<s[1], "0">>
    ELSE <<"0">> \o s

Digits == {"0", "1", "2", "3", "4", "5", "6", "7", "8", "9"}

DigitVal(c) ==
    CASE c = "0" -> 0 [] c = "1" -> 1 [] c = "2" -> 2 [] c = "3" -> 3
      [] c = "4" -> 4 [] c = "5" -> 5 [] c = "6" -> 6 [] c = "7" -> 7
      [] c = "8" -> 8 [] c = "9" -> 9

RECURSIVE ToNat(_)
ToNat(ds) ==
    IF ds = <<>> THEN 0
    ELSE ToNat(SubSeq(ds, 1, Len(ds) - 1)) * 10 + DigitVal(ds[Len(ds)])

AllDigits(s) == s # <<>> /\ \A j \in 1..Len(s) : s[j] \in Digits

\* float(s) over the alphabet digits, sign and junk letters: the number, or
\* None where float() raises ValueError
ParseFloat(s) ==
    IF AllDigits(s) THEN Some(ToNat(s))
    ELSE IF Len(s) >= 2 /\ s[1] = "+" /\ AllDigits(Tail(s)) THEN Some(ToNat(Tail(s)))
    ELSE IF Len(s) >= 2 /\ s[1] = "-" /\ AllDigits(Tail(s)) THEN Some(0 - ToNat(Tail(s)))
    ELSE NULL

(***************************************************************************)
(* Price-matrix parser (EnhancedMultiCommodityScraper)                     *)
(***************************************************************************)

clean_price_zeroes(price_str) ==
    IF price_str = <<>> \/ price_str = <<"-">> THEN Some(0)
    ELSE ParseFloat(Remove(price_str, ","))

\* price_str is None, '' (both <<>>) or a string
clean_price(price_str) ==
    IF price_str = <<>> \/ price_str = <<"-">> THEN NULL
    ELSE ParseFloat(Remove(price_str, ","))

month_map ==
    (<<"J", "a", "n">> :> <<"0", "1">>) @@ (<<"F", "e", "b">> :> <<"0", "2">>) @@
    (<<"M", "a", "r">> :> <<"0", "3">>) @@ (<<"A", "p", "r">> :> <<"0", "4">>) @@
    (<<"M", "a", "y">> :> <<"0", "5">>) @@ (<<"J", "u", "n">> :> <<"0", "6">>) @@
    (<<"J", "u", "l">> :> <<"0", "7">>) @@ (<<"A", "u", "g">> :> <<"0", "8">>) @@
    (<<"S", "e", "p">> :> <<"0", "9">>) @@ (<<"O", "c", "t">> :> <<"1", "0">>) @@
    (<<"N", "o", "v">> :> <<"1", "1">>) @@ (<<"D", "e", "c">> :> <<"1", "2">>)

Semua == <<"S", "e", "m", "u", "a">>

\* the classification of one observation column by the shape of its key:
\* "daily", "monthly" or "none" (not a date column)
date_type_of(key) ==
    IF Contains(key, <<"/">>) THEN "daily"
    ELSE IF \E month \in DOMAIN month_map : Contains(key, month) THEN "monthly"
    ELSE "none"

\* the date of a column key, or None where the column is dropped
parse_date_key(date_type, date_key) ==
    IF date_type = "daily"
    THEN LET parts == SplitOn(date_key, "/")
         IN  IF Len(parts) = 3
             THEN Some(parts[3] \o <<"-">> \o Zfill2(parts[2]) \o <<"-">> \o Zfill2(parts[1]))
             ELSE NULL
    ELSE IF date_type = "monthly"
    THEN LET parts == SplitWs(date_key)
         IN  IF Len(parts) = 2
             THEN LET got == Lookup(month_map, parts[1])
                      month_num == IF IsNull(got) THEN <<"0", "1">> ELSE Val(got)
                  IN  Some(parts[2] \o <<"-">> \o month_num \o <<"-", "0", "1">>)
             ELSE NULL
    ELSE NULL

\* the observations of one row of the response, in column order
RECURSIVE item_rows(_, _)
item_rows(item, k) ==
    IF k > Len(item.cols) THEN <<>>
    ELSE LET date_key == item.cols[k][1]
             value    == item.cols[k][2]
             tanggal  == parse_date_key(date_type_of(date_key), date_key)
             harga    == clean_price(value)
         IN  (IF IsNull(tanggal) \/ IsNull(harga) THEN <<>>
              ELSE <<[provinsi |-> item.name, tanggal |-> Val(tanggal),
                      harga |-> Val(harga)]>>)
             \o item_rows(item, k + 1)

is_aggregate_row(item) == item.level = 0 \/ Contains(item.name, Semua)

RECURSIVE transform_wide_to_long(_)
transform_wide_to_long(data) ==
    IF data = <<>> THEN <<>>
    ELSE (IF is_aggregate_row(Head(data)) THEN <<>> ELSE item_rows(Head(data), 1))
         \o transform_wide_to_long(Tail(data))

(***************************************************************************)
(* Price-matrix parser of PIHPSScraper                                     *)
(***************************************************************************)

\* datetime.strptime(key, '%d/%m/%Y').date(), or None where it raises
strptime_dmy(key) ==
    LET parts == SplitOn(key, "/")
    IN  IF /\ Len(parts) = 3
           /\ \A j \in 1..3 : AllDigits(parts[j])
           /\ Len(parts[1]) <= 2 /\ Len(parts[2]) <= 2 /\ Len(parts[3]) = 4
           /\ ToNat(parts[1]) \in 1..31 /\ ToNat(parts[2]) \in 1..12
        THEN Some(parts[3] \o <<"-">> \o Zfill2(parts[2]) \o <<"-">> \o Zfill2(parts[1]))
        ELSE NULL

\* the rows of one item of the response: a column whose key holds '/' gives
\* a row, with harga None for '-' and ''; a key or a value that does not
\* parse raises and the column is passed over
RECURSIVE long_rows(_, _)
long_rows(item, k) ==
    IF k > Len(item.cols) THEN <<>>
    ELSE LET key     == item.cols[k][1]
             value   == item.cols[k][2]
             tanggal == IF Contains(key, <<"/">>) THEN strptime_dmy(key) ELSE NULL
             harga   == IF value = <<"-">> \/ value = <<>> THEN NULL
                        ELSE ParseFloat(Remove(value, ","))
             raises  == value # <<"-">> /\ value # <<>> /\ IsNull(harga)
         IN  (IF IsNull(tanggal) \/ raises THEN <<>>
              ELSE <<[provinsi |-> item.name, tanggal |-> Val(tanggal),
                      harga |-> harga]>>)
             \o long_rows(item, k + 1)

\* item.get('level', default): the level of a row, absent where the response
\* has no such key
level_or(item, default) == IF IsNull(item.level) THEN default ELSE Val(item.level)

RECURSIVE transform_to_long_format(_)
transform_to_long_format(data) ==
    IF data = <<>> THEN <<>>
    ELSE (IF level_or(Head(data), 0) = 0 THEN <<>> ELSE long_rows(Head(data), 1))
         \o transform_to_long_format(Tail(data))

\* the rows of a response as transform_wide_to_long reads them: a row
\* without level is of level 1
wide_items(data) ==
    [k \in 1..Len(data) |-> [data[k] EXCEPT !.level = level_or(data[k], 1)]]

(***************************************************************************)
(* Dimension tables: seeded out of band, read-only to the pipeline         *)
(***************************************************************************)

\* the scripts launched in this behaviour and the conditions they meet
VARIABLE running

Aceh == <<"A", "c", "e", "h">>
Bali == <<"B", "a", "l", "i">>
Riau == <<"R", "i", "a", "u">>
SemuaProvinsi == <<"S", "e", "m", "u", "a", " ", "P", "r", "o", "v">>

\* Riau is a region the source reports and the dimension does not hold
dim_provinces ==
    { [province_id |-> 1, province_name |-> Aceh],
      [province_id |-> 2, province_name |-> Bali] }

dim_commodities ==
    { [commodity_id |-> 1, category_code |-> "cat_1"],
      [commodity_id |-> 2, category_code |-> "cat_2"] }

\* in the behaviours named "shared" a second commodity owns a subcategory of
\* the display name of a subcategory of the first
dim_subcategories ==
    { [subcategory_id |-> 1, commodity_id |-> 1,
       subcategory_name |-> "Beras Kualitas Bawah I"],
      [subcategory_id |-> 2, commodity_id |-> 2,
       subcategory_name |-> "Daging Ayam Ras Segar"] }
    \cup (IF "shared" \in running
          THEN { [subcategory_id |-> 3, commodity_id |-> 2,
                  subcategory_name |-> "Beras Kualitas Bawah I"] }
          ELSE {})

\* cursor.fetchall() of a SELECT without ORDER BY: the rows come in an order
\* the server chooses, here by ascending or by descending id
fetched_before(a, b) ==
    IF "descending" \in running THEN a.subcategory_id > b.subcategory_id
    ELSE a.subcategory_id < b.subcategory_id

dim_market_types ==
    { [market_type_id |-> 1, market_type_code |-> 1],
      [market_type_id |-> 2, market_type_code |-> 2] }

province_map_guessing ==
    [n \in {d.province_name : d \in dim_provinces} \cup {Riau} |->
        IF n = Riau THEN 3
        ELSE (CHOOSE d \in dim_provinces : d.province_name = n).province_id]

\* {name: id for id, name in cursor.fetchall()}
province_map ==
    [n \in {d.province_name : d \in dim_provinces} |->
        (CHOOSE d \in dim_provinces : d.province_name = n).province_id]

\* {name: id for id, name in cursor.fetchall()}: of the rows of one name the
\* one fetched last stays in the dict
subcategory_map ==
    [n \in {d.subcategory_name : d \in dim_subcategories} |->
        (CHOOSE d \in dim_subcategories :
            /\ d.subcategory_name = n
            /\ \A e \in dim_subcategories :
                  (e.subcategory_name = n /\ e # d) => fetched_before(e, d)).subcategory_id]

\* the source items of a run: categories (cat_*) and subcategories (com_*)
CATEGORIES ==
    ("cat_1" :> [commodity_id |-> 1, name |-> "Beras"])

SUBCATEGORIES ==
    ("com_1" :> [commodity_id |-> 1, name |-> "Beras Kualitas Bawah I"])

(***************************************************************************)
(* Source responses: rows of the wide table, each with a name, a level and *)
(* its observation columns <<key, value>> in the order of the response     *)
(***************************************************************************)

D20 == <<"2", "0", "/", "1", "1", "/", "2", "0", "2", "5">>
D21 == <<"2", "1", "/", "1", "1", "/", "2", "0", "2", "5">>
P14500 == <<"1", "4", ",", "5", "0", "0">>
P14700 == <<"1", "4", ",", "7", "0", "0">>
P15000 == <<"1", "5", ",", "0", "0", "0">>
P9000 == <<"9", ",", "0", "0", "0">>

Responses ==
    { << [name |-> SemuaProvinsi, level |-> 0, cols |-> << <<D20, P14700>> >>],
         [name |-> Aceh, level |-> 1, cols |-> << <<D20, P14500>>, <<D21, <<"-">> >> >>],
         [name |-> Bali, level |-> 1, cols |-> << <<D20, P15000>> >>] >>,
      << [name |-> Aceh, level |-> 1, cols |-> << <<D20, P14700>>, <<D21, P14500>> >>],
         [name |-> Riau, level |-> 1, cols |-> << <<D20, P9000>> >>],
         [name |-> Bali, level |-> 1, cols |-> << <<D20, P15000>> >>] >> }

\* column keys of the daily report, DD/MM/YYYY with and without leading
\* zeros, and of the monthly report, Mon YYYY, as the source sends them
DailyKeys ==
    { day \o <<"/">> \o month \o <<"/">> \o year :
        day \in {<<"1">>, <<"0", "5">>, <<"2", "0">>, <<"2", "8">>},
        month \in {<<"1">>, <<"0", "2">>, <<"1", "1">>, <<"1", "2">>},
        year \in {<<"2", "0", "2", "4">>, <<"2", "0", "2", "5">>} }

MonthlyKeys ==
    { month \o <<" ">> \o year :
        month \in DOMAIN month_map,
        year \in {<<"2", "0", "2", "4">>, <<"2", "0", "2", "5">>} }

\* a column that is no observation
KeyNo == <<"n", "o">>

\* date keys that are no date: two pieces only, and month 13
D20_11 == <<"2", "0", "/", "1", "1">>
D20_13 == <<"2", "0", "/", "1", "3", "/", "2", "0", "2", "5">>

\* responses as the parsers receive them, the level present or not: an
\* aggregate row of level 0 and a "-" column; an aggregate row of level 1; a
\* region row without level and a column that is no date; rows with a
\* malformed date key next to a good one; an empty response
ParserResponses ==
    { << [name |-> SemuaProvinsi, level |-> Some(0), cols |-> << <<D20, P14700>> >>],
         [name |-> Aceh, level |-> Some(1), cols |-> << <<D20, P14500>>, <<D21, <<"-">> >> >>],
         [name |-> Bali, level |-> Some(1), cols |-> << <<D20, P15000>> >>] >>,
      << [name |-> SemuaProvinsi, level |-> Some(1), cols |-> << <<D20, P14700>> >>],
         [name |-> Aceh, level |-> Some(1), cols |-> << <<D20, P14500>> >>] >>,
      << [name |-> Aceh, level |-> NULL, cols |-> << <<D20, P14500>>, <<D21, P14700>> >>],
         [name |-> Bali, level |-> Some(1), cols |-> << <<KeyNo, <<"1">> >>, <<D20, P15000>> >>] >>,
      << [name |-> Aceh, level |-> Some(1), cols |-> << <<D20_11, P14500>>, <<D21, P14700>> >>],
         [name |-> Bali, level |-> Some(1), cols |-> << <<D20, P15000>> >>] >>,
      << [name |-> Aceh, level |-> Some(1), cols |-> << <<D20_13, P14500>>, <<D21, P14700>> >>],
         [name |-> Bali, level |-> Some(1), cols |-> << <<D20, P15000>> >>] >>,
      << >> }

\* a response with a negative value in a price column
Minus500 == <<"-", "5", "0", "0">>

NegativeResponses ==
    { << [name |-> Aceh, level |-> 1, cols |-> << <<D20, Minus500>>, <<D21, P14500>> >>] >> }

\* the first of November as a column of the daily report and November as a
\* column of the monthly report
D01 == <<"0", "1", "/", "1", "1", "/", "2", "0", "2", "5">>
Nov2025 == <<"N", "o", "v", " ", "2", "0", "2", "5">>

\* the responses to the requests of a whole run: no data, and rows of three
\* regions
DriverResponses == {<<>>} \cup {data \in Responses : data[1].name = Aceh}

DayOneResponses ==
    { << [name |-> Aceh, level |-> 1, cols |-> << <<D01, P14500>>, <<D20, P14700>> >>] >> }

MonthlyResponses ==
    { << [name |-> Aceh, level |-> 1, cols |-> << <<Nov2025, P15000>> >>] >> }

(***************************************************************************)
(* Record resolver of the live path                                        *)
(***************************************************************************)

no_skips == [no_province |-> 0, no_price |-> 0, no_subcat_name |-> 0, unmapped_subcat |-> 0]

Bump(reasons, reason, n) == [reasons EXCEPT ![reason] = @ + n]

AddSkips(a, b) ==
    [no_province |-> a.no_province + b.no_province,
     no_price |-> a.no_price + b.no_price,
     no_subcat_name |-> a.no_subcat_name + b.no_subcat_name,
     unmapped_subcat |-> a.unmapped_subcat + b.unmapped_subcat]

\* The frame that scrape_commodity returns and the caller completes with
\* db_commodity_id and, for a subcategory item, the subcommodity_name column.
scrape_frame(data, code, market_type_id) ==
    [rows |-> LET long == transform_wide_to_long(data)
              IN  [k \in 1..Len(long) |->
                     [provinsi |-> long[k].provinsi, tanggal |-> long[k].tanggal,
                      harga |-> Some(long[k].harga)]],
     market_type_id |-> market_type_id,
     db_commodity_id |-> IF code \in DOMAIN CATEGORIES
                         THEN CATEGORIES[code].commodity_id
                         ELSE SUBCATEGORIES[code].commodity_id,
     has_subcommodity_name |-> code \in DOMAIN SUBCATEGORIES,
     subcommodity_name |-> IF code \in DOMAIN SUBCATEGORIES
                           THEN Some(SUBCATEGORIES[code].name) ELSE NULL]

\* the six-tuple appended to records
candidate(df, row, province_id, subcategory_id) ==
    [province_id |-> province_id,
     commodity_id |-> df.db_commodity_id,
     subcategory_id |-> subcategory_id,
     market_type_id |-> df.market_type_id,
     tanggal |-> row.tanggal,
     harga |-> Val(row.harga)]

\* the loop of insert_to_db over df.iterrows() from row k on: the records
\* appended, the number skipped and the skip reasons
RECURSIVE resolve_rows(_, _, _, _, _)
resolve_rows(df, is_category, prov_map, subcat_map, k) ==
    IF k > Len(df.rows) THEN [records |-> <<>>, skipped |-> 0, skip_reasons |-> no_skips]
    ELSE
    LET row  == df.rows[k]
        rest == resolve_rows(df, is_category, prov_map, subcat_map, k + 1)
        skip(reason) == [records |-> rest.records, skipped |-> rest.skipped + 1,
                         skip_reasons |-> Bump(rest.skip_reasons, reason, 1)]
        keep(subcategory_id) ==
            [records |-> <<candidate(df, row, Val(Lookup(prov_map, row.provinsi)),
                                     subcategory_id)>> \o rest.records,
             skipped |-> rest.skipped, skip_reasons |-> rest.skip_reasons]
    IN  IF IsNull(Lookup(prov_map, row.provinsi)) THEN skip("no_province")
        ELSE IF IsNull(row.harga) THEN skip("no_price")
        ELSE IF is_category THEN keep(NULL)
        ELSE IF ~df.has_subcommodity_name
             THEN \* break: the rest of the frame is not looked at
                  [records |-> <<>>, skipped |-> 0,
                   skip_reasons |-> Bump(no_skips, "no_subcat_name", Len(df.rows))]
        ELSE IF IsNull(df.subcommodity_name) \/ df.subcommodity_name = Some("")
             THEN skip("no_subcat_name")
        ELSE IF IsNull(Lookup(subcat_map, Val(df.subcommodity_name)))
             THEN skip("unmapped_subcat")
        ELSE keep(Lookup(subcat_map, Val(df.subcommodity_name)))

\* the record loop of insert_to_database (daily scraper): no skip counters,
\* the subcategory id comes from the subcategory_id_mapped column
RECURSIVE daily_records(_, _, _, _, _)
daily_records(df, is_category, prov_map, subcat_map, k) ==
    IF k > Len(df.rows) THEN <<>>
    ELSE
    LET row    == df.rows[k]
        rest   == daily_records(df, is_category, prov_map, subcat_map, k + 1)
        mapped == IF IsNull(df.subcommodity_name) THEN NULL
                  ELSE Lookup(subcat_map, Val(df.subcommodity_name))
    IN  IF IsNull(Lookup(prov_map, row.provinsi)) \/ IsNull(row.harga) THEN rest
        ELSE IF is_category
             THEN <<candidate(df, row, Val(Lookup(prov_map, row.provinsi)), NULL)>> \o rest
        ELSE IF IsNull(mapped) THEN rest
        ELSE <<candidate(df, row, Val(Lookup(prov_map, row.provinsi)), mapped)>> \o rest

\* a frame as insert_to_db receives it: the rows of one item, with the
\* subcommodity_name column the backfill adds for a subcategory item
resolver_frame(rows, subcommodity_name) ==
    [rows |-> rows, market_type_id |-> 1, db_commodity_id |-> 1,
     has_subcommodity_name |-> ~IsNull(subcommodity_name),
     subcommodity_name |-> subcommodity_name]

\* rows of a region the dimension lacks, without price, and resolvable
ResolverRows ==
    << [provinsi |-> Riau, tanggal |-> <<"2", "0", "2", "5", "-", "1", "1", "-", "2", "0">>, harga |-> Some(9000)],
       [provinsi |-> Aceh, tanggal |-> <<"2", "0", "2", "5", "-", "1", "1", "-", "2", "0">>, harga |-> NULL],
       [provinsi |-> Aceh, tanggal |-> <<"2", "0", "2", "5", "-", "1", "1", "-", "2", "1">>, harga |-> Some(14500)] >>

\* frames for the resolver: of a category, of a subcategory the dimension
\* holds, of a subcategory it lacks, and of a subcategory without name
ResolverFrames ==
    { resolver_frame(rows, name) :
        rows \in { ResolverRows, SubSeq(ResolverRows, 2, 2), SubSeq(ResolverRows, 3, 3) },
        name \in { NULL, Some("Beras Kualitas Bawah I"),
                   Some("Beras Kualitas Super II"), Some("") } }

(***************************************************************************)
(* The legacy table harga_pangan and the resolver of migrate_chunk         *)
(***************************************************************************)

ISO20 == <<"2", "0", "2", "5", "-", "1", "1", "-", "2", "0">>
ISO21 == <<"2", "0", "2", "5", "-", "1", "1", "-", "2", "1">>

legacy_row(provinsi, tanggal, harga, report_type) ==
    [provinsi |-> provinsi, tanggal |-> tanggal, harga |-> harga,
     commodity_category |-> "cat_1", report_type |-> report_type,
     market_type_id |-> 1, market_type_name |-> "Pasar Tradisional",
     market_type_short |-> "traditional", scraped_at |-> Some(0),
     source |-> Some("PIHPS/BI")]

\* rows a legacy table may hold: two resolvable rows, a row of a region the
\* dimension lacks, a row without price, and a row without report type that
\* the migration maps to the natural key of the first
LegacyRows ==
    { legacy_row(Aceh, ISO20, Some(14500), Some("daily")),
      legacy_row(Bali, ISO20, Some(15000), Some("daily")),
      legacy_row(Riau, ISO20, Some(9000), Some("daily")),
      legacy_row(Aceh, ISO21, NULL, Some("daily")),
      legacy_row(Aceh, ISO20, Some(14700), NULL) }

\* ten days of November 2025
november(d) == <<"2", "0", "2", "5", "-", "1", "1", "-", "1">> \o
               <<CHOOSE c \in Digits : DigitVal(c) = d>>

\* a legacy table of n rows, all resolvable, Aceh then Bali over ten days;
\* its last row has no report type and migrates to the natural key of the
\* first row
long_table(n) ==
    [k \in 1..n |->
       IF k = n THEN legacy_row(Aceh, november(0), Some(14700), NULL)
       ELSE legacy_row(IF k <= 10 THEN Aceh ELSE Bali, november((k - 1) % 10),
                       Some(14500), Some("daily"))]

\* UNIQUE(provinsi, tanggal, commodity_category, report_type, market_type_id)
legacy_key(r) ==
    <<r.provinsi, r.tanggal, r.commodity_category, r.report_type, r.market_type_id>>

\* load_dimension_lookups
province_lookup == province_map

commodity_lookup ==
    [c \in {d.category_code : d \in dim_commodities} |->
        (CHOOSE d \in dim_commodities : d.category_code = c).commodity_id]

market_type_lookup ==
    [c \in {d.market_type_code : d \in dim_market_types} |->
        (CHOOSE d \in dim_market_types : d.market_type_code = c).market_type_id]

\* Python's "not x" for an identifier that is None or a number
Falsy(o) == IsNull(o) \/ Val(o) = 0

\* one legacy row through the lookups of migrate_chunk: the transformed row,
\* or None where the row is skipped
migrate_row(row, now) ==
    LET province_id       == Lookup(province_lookup, row.provinsi)
        commodity_id      == Lookup(commodity_lookup, row.commodity_category)
        market_type_id_fk == Lookup(market_type_lookup, row.market_type_id)
    IN  IF Falsy(province_id) THEN NULL
        ELSE IF Falsy(commodity_id) THEN NULL
        ELSE IF Falsy(market_type_id_fk) THEN NULL
        ELSE IF IsNull(row.harga) THEN NULL
        ELSE Some([province_id |-> Val(province_id),
                   commodity_id |-> Val(commodity_id),
                   subcategory_id |-> NULL,
                   market_type_id |-> Val(market_type_id_fk),
                   tanggal |-> row.tanggal,
                   harga |-> Val(row.harga),
                   report_type |-> IF IsNull(row.report_type) THEN "daily"
                                   ELSE Val(row.report_type),
                   scraped_at |-> IF IsNull(row.scraped_at) THEN now
                                  ELSE Val(row.scraped_at),
                   source |-> IF IsNull(row.source) THEN "PIHPS/BI"
                              ELSE Val(row.source)])

\* transformed_rows of a chunk
RECURSIVE transform_chunk(_, _)
transform_chunk(rows, now) ==
    IF rows = <<>> THEN <<>>
    ELSE LET t == migrate_row(Head(rows), now)
         IN  (IF IsNull(t) THEN <<>> ELSE <<Val(t)>>) \o transform_chunk(Tail(rows), now)

\* SELECT ... FROM harga_pangan ORDER BY id LIMIT chunk_size OFFSET offset
read_chunk(table, offset, chunk_size) ==
    SubSeq(table, offset + 1, Min(offset + chunk_size, Len(table)))

(***************************************************************************)
(* The fact store and its INSERT statements                                *)
(***************************************************************************)

\* 500 in insert_to_db and the default of populate_database, scaled so that
\* one call spans several batches
batch_size == 2

natural_key_stamped(r) ==
    <<r.province_id, r.commodity_id, r.subcategory_id, r.market_type_id,
      r.tanggal, r.report_type, r.scraped_at>>

\* the columns of the conflict target of the fact store
natural_key(r) ==
    <<r.province_id, r.commodity_id, r.subcategory_id, r.market_type_id,
      r.tanggal, r.report_type>>

\* the uniqueness constraint of fact_prices: a row collides with a stored row
\* of the same natural key
violates_unique(rows, row) ==
    \E j \in 1..Len(rows) : natural_key(rows[j]) = natural_key(row)

\* the row that INSERT INTO fact_prices (province_id, commodity_id,
\* subcategory_id, market_type_id, tanggal, harga) stores: the columns it does
\* not name take the defaults of the table
fact_row(rec, now) ==
    [province_id |-> rec.province_id, commodity_id |-> rec.commodity_id,
     subcategory_id |-> rec.subcategory_id, market_type_id |-> rec.market_type_id,
     tanggal |-> rec.tanggal, harga |-> rec.harga,
     report_type |-> "daily", scraped_at |-> now, source |-> "PIHPS/BI"]

insert_always(rows, row) == [rows |-> Append(rows, row), rowcount |-> 1]

insert_replaces(rows, row) ==
    IF \E j \in 1..Len(rows) : natural_key(rows[j]) = natural_key(row)
    THEN [rows |-> [j \in 1..Len(rows) |->
                      IF natural_key(rows[j]) = natural_key(row) THEN row ELSE rows[j]],
          rowcount |-> 1]
    ELSE [rows |-> Append(rows, row), rowcount |-> 1]

\* INSERT ... ON CONFLICT DO NOTHING of one row: the rows after it and the
\* number of rows affected
insert_do_nothing(rows, row) ==
    IF violates_unique(rows, row)
    THEN [rows |-> rows, rowcount |-> 0]
    ELSE [rows |-> Append(rows, row), rowcount |-> 1]

\* cursor.executemany(insert_query, batch) with ON CONFLICT DO NOTHING: one
\* INSERT per record, rowcount summed over them
RECURSIVE executemany_do_nothing(_, _)
executemany_do_nothing(rows, batch) ==
    IF batch = <<>> THEN [rows |-> rows, rowcount |-> 0]
    ELSE LET one  == insert_do_nothing(rows, Head(batch))
             rest == executemany_do_nothing(one.rows, Tail(batch))
         IN  [rows |-> rest.rows, rowcount |-> one.rowcount + rest.rowcount]

\* conn.rollback(): the statements of the open transaction are undone
rollback_keeps(open) == open

rollback(open) == <<>>

\* INSERT without conflict clause of one row: a collision raises
\* UniqueViolation
insert_plain(rows, row) ==
    IF violates_unique(rows, row)
    THEN [rows |-> rows, rowcount |-> 0, raised |-> TRUE]
    ELSE [rows |-> Append(rows, row), rowcount |-> 1, raised |-> FALSE]

\* cursor.executemany(insert_query, records) without conflict clause: it stops
\* at the first record that raises
RECURSIVE executemany_plain(_, _)
executemany_plain(rows, batch) ==
    IF batch = <<>> THEN [rows |-> rows, rowcount |-> 0, raised |-> FALSE]
    ELSE LET one == insert_plain(rows, Head(batch))
         IN  IF one.raised THEN one
             ELSE LET rest == executemany_plain(one.rows, Tail(batch))
                  IN  [rows |-> rest.rows, rowcount |-> one.rowcount + rest.rowcount,
                       raised |-> rest.raised]

(***************************************************************************)
(* insert_data: the upsert into the legacy table under a conflict policy   *)
(***************************************************************************)

\* the frame columns insert_data reads; market_type_name is absent (None)
\* where the frame has no such column
frame_row(provinsi, tanggal, harga, market_type_name) ==
    [provinsi |-> provinsi, tanggal |-> tanggal, harga |-> harga,
     commodity_category |-> "cat_1", report_type |-> "daily",
     market_type_id |-> 1, market_type_name |-> market_type_name]

\* frames handed to insert_data: two rows and a row without price; the same
\* key at another price from a frame without market_type_name; a frame that
\* holds one key twice
Frames ==
    { << frame_row(Aceh, ISO20, Some(14500), Some("Pasar Tradisional Daerah")),
         frame_row(Bali, ISO20, Some(15000), Some("Pasar Tradisional Daerah")),
         frame_row(Aceh, ISO21, NULL, Some("Pasar Tradisional Daerah")) >>,
      << frame_row(Aceh, ISO20, Some(14700), NULL) >>,
      << frame_row(Bali, ISO20, Some(15500), NULL),
         frame_row(Bali, ISO20, Some(15700), NULL) >> }

\* the values tuple of one frame row
legacy_values(row, now) ==
    [provinsi |-> row.provinsi, tanggal |-> row.tanggal, harga |-> row.harga,
     commodity_category |-> row.commodity_category, report_type |-> Some(row.report_type),
     market_type_id |-> row.market_type_id,
     market_type_name |-> IF IsNull(row.market_type_name) THEN "Pasar Tradisional"
                          ELSE Val(row.market_type_name),
     market_type_short |-> "traditional",
     scraped_at |-> Some(now), source |-> Some("PIHPS/BI")]

\* values: the rows of the frame whose harga is not null
RECURSIVE legacy_values_of(_, _)
legacy_values_of(df, now) ==
    IF df = <<>> THEN <<>>
    ELSE (IF IsNull(Head(df).harga) THEN <<>> ELSE <<legacy_values(Head(df), now)>>)
         \o legacy_values_of(Tail(df), now)

legacy_conflict(rows, row) ==
    \E j \in 1..Len(rows) : legacy_key(rows[j]) = legacy_key(row)

\* which statement insert_data prepares for a policy value
uses_do_nothing(on_conflict) == on_conflict = "ignore"

\* DO UPDATE SET harga = EXCLUDED.harga, scraped_at = EXCLUDED.scraped_at
do_update_all(old, new) == new

do_update(old, new) ==
    [old EXCEPT !.harga = new.harga, !.scraped_at = new.scraped_at]

\* one row of the VALUES list under the statement of the policy: the table
\* and the rows affected.
upsert_legacy(rows, row, on_conflict) ==
    IF ~legacy_conflict(rows, row)
    THEN [rows |-> Append(rows, row), rowcount |-> 1]
    ELSE IF uses_do_nothing(on_conflict)
    THEN [rows |-> rows, rowcount |-> 0]
    ELSE [rows |-> [j \in 1..Len(rows) |->
                      IF legacy_key(rows[j]) = legacy_key(row)
                      THEN do_update(rows[j], row) ELSE rows[j]],
          rowcount |-> 1]

\* execute_values(cursor, sql, values) for a VALUES list of one page
RECURSIVE execute_values(_, _, _)
execute_values(rows, values, on_conflict) ==
    IF values = <<>> THEN [rows |-> rows, rowcount |-> 0]
    ELSE LET one  == upsert_legacy(rows, Head(values), on_conflict)
             rest == execute_values(one.rows, Tail(values), on_conflict)
         IN  [rows |-> rest.rows, rowcount |-> one.rowcount + rest.rowcount]

\* ON CONFLICT DO UPDATE raises when one statement proposes a key twice
affects_row_twice(values) ==
    \E j, k \in 1..Len(values) : j < k /\ legacy_key(values[j]) = legacy_key(values[k])

(***************************************************************************)
(* populate_database: the frame of the CSV and its valid records           *)
(***************************************************************************)

csv_row(provinsi, tanggal, harga, subcommodity_name) ==
    [provinsi |-> provinsi, tanggal |-> tanggal, harga |-> harga,
     db_commodity_id |-> 1, market_type_id |-> 1,
     subcommodity_name |-> subcommodity_name]

\* CSV files of the subcategory backfill: three valid rows and a row of an
\* unmapped region; a file that holds one key twice; a file with no valid row
CsvFiles ==
    { << csv_row(Aceh, ISO20, Some(14500), "Beras Kualitas Bawah I"),
         csv_row(Aceh, ISO21, Some(14700), "Beras Kualitas Bawah I"),
         csv_row(Riau, ISO20, Some(9000), "Beras Kualitas Bawah I"),
         csv_row(Bali, ISO20, Some(15000), "Beras Kualitas Bawah I") >>,
      << csv_row(Aceh, ISO20, Some(14500), "Beras Kualitas Bawah I"),
         csv_row(Bali, ISO20, Some(15000), "Beras Kualitas Bawah I"),
         csv_row(Aceh, ISO20, Some(14700), "Beras Kualitas Bawah I") >>,
      << csv_row(Aceh, ISO20, NULL, "Beras Kualitas Bawah I"),
         csv_row(Bali, ISO20, Some(15000), "Beras Kualitas Super II") >> }

\* df_valid, as the records of the batches
RECURSIVE valid_records(_)
valid_records(df) ==
    IF df = <<>> THEN <<>>
    ELSE LET row == Head(df)
             province_id == Lookup(province_map, row.provinsi)
             db_subcategory_id == Lookup(subcategory_map, row.subcommodity_name)
         IN  (IF IsNull(province_id) \/ IsNull(db_subcategory_id) \/ IsNull(row.harga)
              THEN <<>>
              ELSE <<[province_id |-> Val(province_id),
                      commodity_id |-> row.db_commodity_id,
                      subcategory_id |-> db_subcategory_id,
                      market_type_id |-> row.market_type_id,
                      tanggal |-> row.tanggal,
                      harga |-> Val(row.harga)]>>)
             \o valid_records(Tail(df))

(***************************************************************************)
(* State                                                                   *)
(***************************************************************************)

VARIABLES
    fact_prices,    \* committed rows of the fact store, in insertion order
    harga_pangan,   \* committed rows of the legacy table, in id order
    open_txn,       \* rows written by the open transaction of the live connection
    clock,          \* NOW() of the database, one tick per call
    pc,             \* position of the live call: "idle" or "batch"
    cur,            \* the call in progress: function, item, market type, is_category
    records,        \* the candidates of the call
    i,              \* offset of the next batch in records
    total_inserted, \* running total of cursor.rowcount
    ret,            \* how the last call ended
    base,           \* Len(fact_prices) when the call began
    completed,      \* the calls that ran all their batches
    mig,            \* the migration driver (migrate_all)
    leg,            \* the last call of insert_data
    pop,            \* the run of populate_database
    lost,           \* the rows of the batches whose write failed for good
    res,            \* the resolver applied to one frame: its input and output
    db,             \* the connection of the backfill and the connections its
                    \* two mappings were loaded through
    runs,           \* two backfill runs launched at once, each inside
                    \* insert_to_db for the same item
    parsed,         \* one response and what each of the two parsers made of it
    dated,          \* one column key and the date transform_wide_to_long made of it
    drv             \* the loops of backfill_unified: position, stats, and the
                    \* items processed so far with how each ended

liveVars == <<open_txn, pc, cur, records, i, total_inserted, ret, base, completed>>

\* the variables of the scenarios that leave the stores alone
\* the variables of the scenarios of one pure function
moreVars == <<dated, drv>>

auxVars == <<res, db, runs, parsed, moreVars>>

vars == <<running, fact_prices, harga_pangan, clock, liveVars, mig, leg, pop, lost,
          auxVars>>

\* bounds of the model: calls of the live path in one behaviour, rows of the
\* legacy table, chunk size of the migration
MaxCalls == 2
MaxLegacy == 4
MaxChunk == 2

\* every how many chunks migrate_all sleeps
PauseEvery == 10

ItemCodes == DOMAIN CATEGORIES \cup DOMAIN SUBCATEGORIES

no_call == [fn |-> "none", data |-> <<>>, code |-> "none", is_category |-> TRUE,
            tipe_laporan |-> 1, market_id |-> 1, again |-> FALSE]

no_ret == [kind |-> "none", value |-> 0, failed |-> FALSE, batch_index |-> 0,
           batch_len |-> 0]

mig_idle ==
    [pc |-> "idle", chunk_size |-> 1, dry_run |-> FALSE, offset |-> 0,
     chunk_num |-> 0, total_migrated |-> 0, migrated |-> 0, stored |-> 0,
     pauses |-> 0, new_count |-> NULL, warning |-> FALSE,
     resumed |-> FALSE, committed |-> 0, skips |-> [skipped |-> 0]]

Policies == {"ignore", "update", "skip"}

\* one of two concurrent runs inside insert_to_db: its records, the offset i
\* of its batch, the records of the batch already executed, the rows of its
\* open transaction, cursor.rowcount so far, total_inserted and the return
run_of(recs) ==
    [records |-> recs, i |-> 0, k |-> 0, open |-> <<>>, rowcount |-> 0,
     total_inserted |-> 0,
     pc |-> IF recs = <<>> THEN "done" ELSE "batch",
     ret |-> IF recs = <<>> THEN Some(0) ELSE NULL]

no_runs == [r \in {1, 2} |-> run_of(<<>>)]

\* market_types of a run, and CATEGORIES.items() followed by
\* SUBCATEGORIES.items(): the items of one market type in loop order
market_types == <<1, 2>>

item_order == <<"cat_1", "com_1">>

no_stats ==
    [categories_scraped |-> 0, categories_failed |-> 0, subcategories_scraped |-> 0,
     subcategories_failed |-> 0, total_inserted |-> 0]

drv_idle == [market_idx |-> 1, idx |-> 1, stats |-> no_stats, processed |-> <<>>]

\* stats[..._failed] += 1
count_failed_nothing(stats, is_category) == stats

count_failed(stats, is_category) ==
    IF is_category THEN [stats EXCEPT !.categories_failed = @ + 1]
    ELSE [stats EXCEPT !.subcategories_failed = @ + 1]

\* stats[..._scraped] += 1; stats['total_inserted'] += inserted
count_scraped(stats, is_category, inserted) ==
    IF is_category
    THEN [stats EXCEPT !.categories_scraped = @ + 1, !.total_inserted = @ + inserted]
    ELSE [stats EXCEPT !.subcategories_scraped = @ + 1, !.total_inserted = @ + inserted]

\* the iteration of one item ends: "empty" (df.empty), "raise" (the except
\* clause of the loop body) or "return" (insert_to_db returned inserted);
\* the loops go on to the next item, and after the last item to the next
\* market type
item_done(d, outcome, inserted) ==
    LET code        == item_order[d.idx]
        is_category == code \in DOMAIN CATEGORIES
        last        == d.idx = Len(item_order)
    IN  [market_idx |-> IF last THEN d.market_idx + 1 ELSE d.market_idx,
         idx        |-> IF last THEN 1 ELSE d.idx + 1,
         stats      |-> IF outcome = "return"
                        THEN count_scraped(d.stats, is_category, inserted)
                        ELSE count_failed(d.stats, is_category),
         processed  |-> Append(d.processed,
                               [code |-> code, market_id |-> market_types[d.market_idx],
                                outcome |-> outcome, inserted |-> inserted])]

dated_idle == [pc |-> "idle", key |-> <<>>, date_type |-> "none", tanggal |-> NULL]

parsed_idle == [pc |-> "idle", data |-> <<>>, wide |-> <<>>, long |-> <<>>]

\* db.connect() and the two mappings loaded, at the start of the run
db_connected ==
    [opened |-> 1, conn |-> 1, alive |-> TRUE,
     province_map_conn |-> 1, subcategory_map_conn |-> 1]

leg_idle == [on_conflict |-> "none", values |-> <<>>, before |-> <<>>, ret |-> no_ret]

res_idle == [pc |-> "idle", df |-> resolver_frame(<<>>, NULL), is_category |-> TRUE,
             out |-> [records |-> <<>>, skipped |-> 0, skip_reasons |-> no_skips]]

pop_idle ==
    [pc |-> "idle", records |-> <<>>, i |-> 0, total_inserted |-> 0,
     use_conflict_handling |-> TRUE, attempts |-> <<>>, open |-> <<>>,
     started |-> <<>>, ret |-> no_ret]

\* the legacy tables of at most n rows that satisfy the table's UNIQUE
RECURSIVE LegacyTables(_)
LegacyTables(n) ==
    IF n = 0 THEN {<<>>}
    ELSE LET shorter == LegacyTables(n - 1)
         IN  shorter \cup
             { Append(t, r) : <<t, r>> \in
                 { x \in shorter \X LegacyRows :
                     /\ Len(x[1]) = n - 1
                     /\ \A j \in 1..Len(x[1]) : legacy_key(x[1][j]) # legacy_key(x[2]) } }

InitLive ==
    /\ open_txn = <<>>
    /\ pc = "idle"
    /\ cur = no_call
    /\ records = <<>>
    /\ i = 0
    /\ total_inserted = 0
    /\ ret = no_ret
    /\ base = 0
    /\ completed = {}

\* the backfill and the daily scraper against an empty fact store
InitBackfill ==
    /\ running = {"live"}
    /\ harga_pangan = <<>>
    /\ mig = mig_idle

\* the migration of any legacy table, with any chunk size, dry or not
InitMigration ==
    /\ running = {"migrate"}
    /\ harga_pangan \in LegacyTables(MaxLegacy)
    /\ \E c \in 1..MaxChunk, d \in BOOLEAN :
         mig = [mig_idle EXCEPT !.chunk_size = c, !.dry_run = d]

\* insert_data against an empty legacy table
InitLegacy ==
    /\ running = {"legacy"}
    /\ harga_pangan = <<>>
    /\ mig = mig_idle

\* populate_database against an empty fact store
InitPopulate ==
    /\ running = {"populate"}
    /\ harga_pangan = <<>>
    /\ mig = mig_idle

\* the migration of one legacy table next to the live path
InitBoth ==
    /\ running = {"live", "migrate"}
    /\ harga_pangan = << legacy_row(Aceh, ISO20, Some(14500), Some("daily")),
                         legacy_row(Aceh, ISO20, Some(14700), NULL),
                         legacy_row(Bali, ISO20, Some(15000), Some("daily")) >>
    /\ mig = [mig_idle EXCEPT !.chunk_size = 2]

\* the backfill on a connection that may drop
InitOutage ==
    /\ running = {"live", "outage"}
    /\ harga_pangan = <<>>
    /\ mig = mig_idle

\* two backfill runs over overlapping date ranges, each at the same item
InitRace ==
    /\ running = {"race"}
    /\ harga_pangan = <<>>
    /\ mig = mig_idle
    /\ \E d1 \in Responses, d2 \in Responses, code \in ItemCodes :
         LET is_category == code \in DOMAIN CATEGORIES
             recs(data) == resolve_rows(scrape_frame(data, code, 1), is_category,
                                        province_map, subcategory_map, 1).records
         IN  runs = [r \in {1, 2} |-> run_of(recs(IF r = 1 THEN d1 ELSE d2))]

\* the two parsers on their own
InitParsers ==
    /\ running = {"parse"}
    /\ harga_pangan = <<>>
    /\ mig = mig_idle

\* the migration of a legacy table of twenty or of eighteen rows in chunks
\* of two, dry or not: ten or nine chunks with rows
InitLongMigration ==
    /\ running = {"migrate", "long"}
    /\ harga_pangan \in {long_table(2 * PauseEvery), long_table(2 * PauseEvery - 2)}
    /\ \E d \in BOOLEAN : mig = [mig_idle EXCEPT !.chunk_size = 2, !.dry_run = d]

\* the date normalisation of transform_wide_to_long on its own
InitDates ==
    /\ running = {"dates"}
    /\ harga_pangan = <<>>
    /\ mig = mig_idle

\* the backfill on a response with a negative value
InitNegative ==
    /\ running = {"live", "negative"}
    /\ harga_pangan = <<>>
    /\ mig = mig_idle

\* the backfill run with tipe_laporan 1 and with tipe_laporan 3
InitGranularity ==
    /\ running = {"live", "monthly"}
    /\ harga_pangan = <<>>
    /\ mig = mig_idle

\* the backfill against a dimension in which two commodities own a
\* subcategory of the same display name
InitShared ==
    /\ \E order \in {{}, {"descending"}} : running = {"live", "shared"} \cup order
    /\ harga_pangan = <<>>
    /\ mig = mig_idle

\* one run of backfill_unified over its market types and items, the
\* connection dropping at any moment
InitDriver ==
    /\ running = {"live", "driver", "outage"}
    /\ harga_pangan = <<>>
    /\ mig = mig_idle

\* the resolver of insert_to_db on its own
InitResolver ==
    /\ running = {"resolve"}
    /\ harga_pangan = <<>>
    /\ mig = mig_idle

Init ==
    /\ fact_prices = <<>>
    /\ clock = 0
    /\ InitLive
    /\ leg = leg_idle
    /\ pop = pop_idle
    /\ lost = {}
    /\ res = res_idle
    /\ db = db_connected
    /\ parsed = parsed_idle
    /\ dated = dated_idle
    /\ drv = drv_idle
    /\ (InitBackfill \/ InitMigration \/ InitBoth \/ InitLegacy \/ InitPopulate
        \/ InitOutage \/ InitRace \/ InitParsers \/ InitDates \/ InitLongMigration \/ InitNegative
        \/ InitGranularity \/ InitShared \/ InitDriver \/ InitResolver)
    /\ "race" \notin running => runs = no_runs

\* what the live connection sees: committed rows and its own open transaction
view == fact_prices \o open_txn

\* the rows a call has to write, as fact rows stamped with the call's time
batch_rows(from, to) == [k \in 1..(to - from) |-> fact_row(records[from + k], clock)]

\* the width of one executemany: batch_size in insert_to_db, the whole record
\* list in insert_to_database
batch_width == IF cur.fn = "insert_to_db" THEN batch_size ELSE Len(records)

batch_end_all == Len(records)

\* records[i:i+batch_size]
batch_end == Min(i + batch_width, Len(records))

returned(value, failed) ==
    [kind |-> "return", value |-> value, failed |-> failed,
     batch_index |-> 0, batch_len |-> 0]

(***************************************************************************)
(* insert_to_db (backfill) and insert_to_database (daily scraper)          *)
(***************************************************************************)

\* the scripts of the live path in this behaviour: the backfill and the daily
\* scraper, or the backfill alone next to the migration
live_functions ==
    IF running # {"live"} THEN {"insert_to_db"}
    ELSE {"insert_to_db", "insert_to_database"}

reconnect_keeps_subcategories(d) ==
    [opened |-> d.opened + 1, conn |-> d.opened + 1, alive |-> TRUE,
     province_map_conn |-> d.opened + 1,
     subcategory_map_conn |-> d.subcategory_map_conn]

\* the except clause of the probe: db.close(), a new connection, and both
\* mappings read again through it
reconnect(d) ==
    [opened |-> d.opened + 1, conn |-> d.opened + 1, alive |-> TRUE,
     province_map_conn |-> d.opened + 1, subcategory_map_conn |-> d.opened + 1]

\* "SELECT 1" before each item, and the reconnection where it raises
probe(d) == IF d.alive THEN d ELSE reconnect(d)

\* the server or the network drops the connection of the backfill
ConnLost ==
    /\ "outage" \in running
    /\ db.alive
    /\ db' = [db EXCEPT !.alive = FALSE]
    /\ UNCHANGED <<running, res, moreVars, runs, parsed, fact_prices, harga_pangan, clock, liveVars, mig, leg,
                   pop, lost>>

\* the run of this behaviour goes through the loops of backfill_unified
Driven == "driver" \in running

\* the loops are over
driver_done == drv.market_idx > Len(market_types)

\* the items the next call may be for: the item of the loop position, or any
\* item where the behaviour is a sequence of single calls
next_items == IF ~Driven THEN ItemCodes
              ELSE IF driver_done THEN {}
              ELSE {item_order[drv.idx]}

\* market_id of the loop position
next_market == IF Driven /\ ~driver_done THEN market_types[drv.market_idx] ELSE 1

\* the probe raises and so does the reconnection: the outer except clause
\* counts the item as failed; db is the new object, not connected, and the
\* mappings are the ones read before
ReconnectFail ==
    /\ "outage" \in running
    /\ pc = "idle"
    /\ clock < MaxCalls \/ Driven
    /\ ~db.alive
    /\ \E data \in Responses, code \in next_items :
         cur' = [fn |-> "insert_to_db", data |-> data, code |-> code,
                 is_category |-> code \in DOMAIN CATEGORIES, tipe_laporan |-> 1,
                 market_id |-> next_market, again |-> FALSE]
    /\ clock' = clock + 1
    /\ base' = Len(fact_prices)
    /\ i' = 0
    /\ total_inserted' = 0
    /\ records' = <<>>
    /\ ret' = [kind |-> "raise", value |-> 0, failed |-> TRUE, batch_index |-> 0,
               batch_len |-> 0]
    /\ db' = [db EXCEPT !.conn = 0]
    /\ drv' = IF Driven THEN item_done(drv, "raise", 0) ELSE drv
    /\ UNCHANGED <<running, res, dated, runs, parsed, fact_prices, harga_pangan, open_txn, pc, completed, mig,
                   leg, pop, lost>>

\* the tipe_laporan arguments of the runs of this behaviour: 1 is the daily
\* report, 3 the monthly one
live_report_types == IF "monthly" \in running THEN {1, 3} ELSE {1}

\* the responses the source gives in this behaviour to a request of a report
\* type
live_responses(tipe_laporan) ==
    IF "negative" \in running THEN NegativeResponses
    ELSE IF Driven THEN DriverResponses
    ELSE IF "monthly" \in running
         THEN (IF tipe_laporan = 3 THEN MonthlyResponses ELSE DayOneResponses)
    ELSE Responses

\* the call begins: resolution; with no record left it returns 0 at once
InsertBegin ==
    /\ "live" \in running
    /\ pc = "idle"
    /\ clock < MaxCalls \/ Driven
    /\ \E fn \in live_functions, tipe_laporan \in live_report_types, code \in next_items :
       \E data \in live_responses(tipe_laporan) :
         LET is_category == code \in DOMAIN CATEGORIES
             df   == scrape_frame(data, code, next_market)
             recs == IF fn = "insert_to_db"
                     THEN resolve_rows(df, is_category, province_map,
                                       subcategory_map, 1).records
                     ELSE daily_records(df, is_category, province_map,
                                        subcategory_map, 1)
             call == [fn |-> fn, data |-> data, code |-> code,
                      is_category |-> is_category, tipe_laporan |-> tipe_laporan,
                      market_id |-> next_market, again |-> FALSE]
         IN  /\ cur' = [call EXCEPT !.again = call \in completed]
             /\ clock' = clock + 1
             /\ base' = Len(fact_prices)
             /\ i' = 0
             /\ total_inserted' = 0
             /\ IF df.rows = <<>>
                THEN \* df.empty: the item is counted as failed and
                     \* insert_to_db is not called
                     /\ pc' = "idle"
                     /\ records' = <<>>
                     /\ ret' = no_ret
                     /\ completed' = completed
                     /\ drv' = IF Driven THEN item_done(drv, "empty", 0) ELSE drv
                ELSE IF recs = <<>>
                THEN /\ pc' = "idle"
                     /\ records' = <<>>
                     /\ ret' = returned(0, FALSE)
                     /\ completed' = completed \cup {call}
                     /\ drv' = IF Driven THEN item_done(drv, "return", 0) ELSE drv
                ELSE /\ pc' = "batch"
                     /\ records' = recs
                     /\ ret' = no_ret
                     /\ completed' = completed
                     /\ drv' = drv
             /\ db' = IF fn = "insert_to_db" THEN probe(db) ELSE db
    /\ UNCHANGED <<running, res, dated, runs, parsed, fact_prices, harga_pangan, open_txn, mig, leg, pop, lost>>

\* one batch: executemany, commit, total_inserted += cursor.rowcount; after
\* the last batch the call returns total_inserted
BatchCommit ==
    /\ pc = "batch"
    /\ db.alive
    /\ LET done == executemany_do_nothing(view, batch_rows(i, batch_end))
           total == total_inserted + done.rowcount
       IN  /\ fact_prices' = done.rows
           /\ open_txn' = <<>>
           /\ total_inserted' = total
           /\ i' = i + batch_width
           /\ IF i + batch_width >= Len(records)
              THEN /\ pc' = "idle"
                   /\ ret' = returned(total, FALSE)
                   /\ completed' = completed \cup {[cur EXCEPT !.again = FALSE]}
                   /\ drv' = IF Driven THEN item_done(drv, "return", total) ELSE drv
              ELSE /\ UNCHANGED <<pc, ret, completed, drv>>
    /\ UNCHANGED <<running, res, db, runs, parsed, dated, harga_pangan, clock, cur, records, base, mig, leg, pop, lost>>

\* one batch whose executemany raises after n records (n = all of them: the
\* commit raises): the except clause rolls back and the call returns 0; on a
\* dropped connection the rollback raises too, and the exception leaves the
\* call
BatchFail ==
    /\ pc = "batch"
    /\ \E n \in 0..(batch_end - i) :
         LET done == executemany_do_nothing(view, batch_rows(i, i + n))
         IN  /\ open_txn' = rollback(SubSeq(done.rows, Len(fact_prices) + 1, Len(done.rows)))
             /\ ret' = [returned(0, TRUE) EXCEPT !.kind = IF db.alive THEN "return"
                                                          ELSE "raise",
                                                 !.batch_index = i \div batch_width + 1,
                                                 !.batch_len = batch_end - i]
    /\ pc' = "idle"
    /\ lost' = lost \cup {batch_rows(i, batch_end)[k] : k \in 1..(batch_end - i)}
    /\ drv' = IF Driven THEN item_done(drv, IF db.alive THEN "return" ELSE "raise", 0)
              ELSE drv
    /\ UNCHANGED <<running, res, db, runs, parsed, dated, fact_prices, harga_pangan, clock, cur, records, i,
                   total_inserted, base, completed, mig, leg, pop>>

(***************************************************************************)
(* Two runs of insert_to_db at once, each on its own connection            *)
(***************************************************************************)

\* the end of the batch records[i:i+batch_size] of a run
run_batch_end(run) == Min(run.i + batch_size, Len(run.records))

\* an INSERT whose key is held by the open transaction of another connection
\* waits for that transaction to end
blocked(other_open, row) == violates_unique(other_open, row)

\* one INSERT of the executemany of a run, in its open transaction
RaceExec ==
    /\ "race" \in running
    /\ \E r \in {1, 2} :
         LET me  == runs[r]
             row == fact_row(me.records[me.i + me.k + 1], clock)
             one == insert_do_nothing(fact_prices \o me.open, row)
         IN  /\ me.pc = "batch"
             /\ me.i + me.k < run_batch_end(me)
             /\ ~blocked(runs[3 - r].open, row)
             /\ runs' = [runs EXCEPT ![r] =
                           [me EXCEPT !.k = @ + 1,
                                      !.open = SubSeq(one.rows, Len(fact_prices) + 1,
                                                      Len(one.rows)),
                                      !.rowcount = @ + one.rowcount]]
    /\ UNCHANGED <<running, res, moreVars, db, parsed, fact_prices, harga_pangan, clock, liveVars, mig, leg,
                   pop, lost>>

\* db.conn.commit() and total_inserted += cursor.rowcount of a run; after its
\* last batch the run returns total_inserted
RaceCommit ==
    /\ "race" \in running
    /\ \E r \in {1, 2} :
         LET me    == runs[r]
             total == me.total_inserted + me.rowcount
             last  == me.i + batch_size >= Len(me.records)
         IN  /\ me.pc = "batch"
             /\ me.i + me.k = run_batch_end(me)
             /\ fact_prices' = fact_prices \o me.open
             /\ runs' = [runs EXCEPT ![r] =
                           [me EXCEPT !.open = <<>>, !.rowcount = 0, !.k = 0,
                                      !.i = @ + batch_size,
                                      !.total_inserted = total,
                                      !.pc = IF last THEN "done" ELSE "batch",
                                      !.ret = IF last THEN Some(total) ELSE NULL]]
    /\ UNCHANGED <<running, res, moreVars, db, parsed, harga_pangan, clock, liveVars, mig, leg, pop, lost>>

(***************************************************************************)
(* migrate_all and migrate_chunk                                           *)
(***************************************************************************)

\* migrate_all up to the loop: count of the old table, dimension lookups
MigrateStart ==
    /\ "migrate" \in running
    /\ mig.pc = "idle"
    /\ mig' = [mig EXCEPT !.pc = "loop"]
    /\ UNCHANGED <<running, auxVars, fact_prices, harga_pangan, clock, liveVars, leg, pop, lost>>

\* the chunk that the next iteration reads, and its transformed rows
chunk_rows == read_chunk(harga_pangan, mig.offset, mig.chunk_size)

transformed_rows == transform_chunk(chunk_rows, clock)

\* what migrate_chunk returns
migrate_chunk_count(transformed) == Len(transformed)

\* the skip count of a chunk: one counter for every reason
chunk_skipped(rows, transformed) == [skipped |-> Len(rows) - Len(transformed)]

chunk_writes_always(dry_run, transformed) == transformed # <<>>

\* if not dry_run and transformed_rows
chunk_writes(dry_run, transformed) == ~dry_run /\ transformed # <<>>

\* new_count < total_migrated * 0.95
next_offset_stays(offset, chunk_size) == offset

\* offset += chunk_size
next_offset(offset, chunk_size) == offset + chunk_size

rate_limited_always(chunk_num) == TRUE

\* if chunk_num % 10 == 0: time.sleep(5)
rate_limited(chunk_num) == chunk_num % PauseEvery = 0

count_warning_any_loss(new_count, total_migrated) == new_count < total_migrated

count_warning(new_count, total_migrated) == new_count * 100 < total_migrated * 95

\* one iteration of the loop of migrate_all: migrate_chunk reads, transforms,
\* inserts and commits; a count of 0 breaks the loop and the summary follows
MigrateChunk ==
    /\ mig.pc = "loop"
    /\ LET writes   == chunk_writes(mig.dry_run, transformed_rows)
           done     == IF writes THEN executemany_do_nothing(fact_prices, transformed_rows)
                       ELSE [rows |-> fact_prices, rowcount |-> 0]
           migrated == migrate_chunk_count(transformed_rows)
           chunk_num == mig.chunk_num + 1
       IN  /\ fact_prices' = done.rows
           /\ IF migrated = 0
              THEN mig' = [mig EXCEPT
                      !.pc = "done", !.chunk_num = chunk_num,
                      !.skips = chunk_skipped(chunk_rows, transformed_rows),
                      !.migrated = 0, !.stored = 0,
                      !.new_count = IF mig.dry_run THEN NULL ELSE Some(Len(fact_prices)),
                      !.warning = ~mig.dry_run
                                  /\ count_warning(Len(fact_prices), mig.total_migrated)]
              ELSE mig' = [mig EXCEPT
                      !.chunk_num = chunk_num,
                      !.skips = chunk_skipped(chunk_rows, transformed_rows),
                      !.migrated = migrated, !.stored = done.rowcount,
                      !.total_migrated = @ + migrated,
                      !.offset = next_offset(@, mig.chunk_size),
                      !.committed = IF writes /\ mig.offset + mig.chunk_size > @
                                    THEN mig.offset + mig.chunk_size ELSE @,
                      !.pauses = IF rate_limited(chunk_num) THEN @ + 1 ELSE @]
    /\ UNCHANGED <<running, auxVars, harga_pangan, clock, liveVars, leg, pop, lost>>

\* the insert or the commit of a chunk raises: migrate_all ends with the
\* exception and the connection is closed with the chunk uncommitted
MigrateChunkFail ==
    /\ mig.pc = "loop"
    /\ chunk_writes(mig.dry_run, transformed_rows)
    /\ mig' = [mig EXCEPT !.pc = "failed", !.chunk_num = @ + 1]
    /\ UNCHANGED <<running, auxVars, fact_prices, harga_pangan, clock, liveVars, leg, pop, lost>>

\* the script is run again after a run that ended with an exception or was
\* stopped between two chunks: migrate_all starts over at offset 0 with the
\* same arguments
MigrateAgain ==
    /\ running = {"migrate"}
    /\ mig.pc \in {"loop", "failed"}
    /\ ~mig.resumed
    /\ mig.chunk_num > 0
    /\ mig' = [mig EXCEPT !.pc = "loop", !.resumed = TRUE, !.offset = 0,
                          !.chunk_num = 0, !.total_migrated = 0,
                          !.migrated = 0, !.stored = 0, !.pauses = 0,
                          !.skips = [skipped |-> 0]]
    /\ UNCHANGED <<running, auxVars, fact_prices, harga_pangan, clock, liveVars, leg, pop, lost>>

(***************************************************************************)
(* insert_data                                                             *)
(***************************************************************************)

raised(failed) ==
    [kind |-> "raise", value |-> 0, failed |-> failed, batch_index |-> 0, batch_len |-> 0]

\* one call that runs to its end: the statement of the policy over the rows
\* with a price, the commit, and the return of cursor.rowcount; a DO UPDATE
\* that proposes a key twice raises, is rolled back and re-raised
InsertData ==
    /\ "legacy" \in running
    /\ clock < MaxCalls
    /\ \E df \in Frames, on_conflict \in Policies :
         LET values == legacy_values_of(df, clock + 1)
             done   == execute_values(harga_pangan, values, on_conflict)
             fails  == ~uses_do_nothing(on_conflict) /\ affects_row_twice(values)
         IN  /\ harga_pangan' = IF values = <<>> \/ fails THEN harga_pangan ELSE done.rows
             /\ leg' = [on_conflict |-> on_conflict, values |-> values,
                        before |-> harga_pangan,
                        ret |-> IF values = <<>> THEN returned(0, FALSE)
                                ELSE IF fails THEN raised(TRUE)
                                ELSE returned(done.rowcount, FALSE)]
    /\ clock' = clock + 1
    /\ UNCHANGED <<running, auxVars, fact_prices, liveVars, mig, pop, lost>>

\* one call whose statement or commit raises: rollback, and the exception is
\* raised again
InsertDataRaise ==
    /\ "legacy" \in running
    /\ clock < MaxCalls
    /\ \E df \in Frames, on_conflict \in Policies :
         /\ legacy_values_of(df, clock + 1) # <<>>
         /\ leg' = [on_conflict |-> on_conflict,
                    values |-> legacy_values_of(df, clock + 1),
                    before |-> harga_pangan, ret |-> raised(TRUE)]
    /\ clock' = clock + 1
    /\ UNCHANGED <<running, auxVars, fact_prices, harga_pangan, liveVars, mig, pop, lost>>

(***************************************************************************)
(* populate_database                                                       *)
(***************************************************************************)

\* total_batches
batches_of(n) == (n + batch_size - 1) \div batch_size

pop_batch_num == pop.i \div batch_size + 1

pop_batch_end == Min(pop.i + batch_size, Len(pop.records))

\* the records of the current batch as fact rows
pop_batch ==
    [k \in 1..(pop_batch_end - pop.i) |-> fact_row(pop.records[pop.i + k], clock)]

\* what the connection of populate_database sees
pop_view == fact_prices \o pop.open

\* the first n records of the batch under the statement in use
pop_exec(n) ==
    IF pop.use_conflict_handling
    THEN LET done == executemany_do_nothing(pop_view, SubSeq(pop_batch, 1, n))
         IN  [rows |-> done.rows, rowcount |-> done.rowcount, raised |-> FALSE]
    ELSE executemany_plain(pop_view, SubSeq(pop_batch, 1, n))

written(rows) == SubSeq(rows, Len(fact_prices) + 1, Len(rows))

\* the loop after a committed batch: the next batch, or the return of
\* total_inserted after the last
pop_after_commit(rows, rowcount) ==
    LET total == pop.total_inserted + rowcount
        last  == pop.i + batch_size >= Len(pop.records)
    IN  [pop EXCEPT !.pc = IF last THEN "done" ELSE "batch",
                    !.i = @ + batch_size,
                    !.total_inserted = total,
                    !.open = <<>>,
                    !.attempts[pop_batch_num] = @ + 1,
                    !.started = IF last THEN @ ELSE Append(@, Len(rows)),
                    !.ret = IF last THEN returned(total, FALSE) ELSE @]

\* the outer except clause: the error is logged and 0 is returned; no
\* rollback, the connection ends with its transaction open
pop_give_up ==
    [pop EXCEPT !.pc = "done", !.attempts[pop_batch_num] = @ + 1,
                !.ret = [returned(0, TRUE) EXCEPT !.batch_index = pop_batch_num,
                                                  !.batch_len = pop_batch_end - pop.i]]

\* if use_conflict_handling and 'constraint' in str(batch_error).lower()
retries(use_conflict_handling, constraint) == use_conflict_handling /\ constraint

\* the run begins: the CSV is loaded and filtered to its valid records
PopulateBegin ==
    /\ "populate" \in running
    /\ pop.pc = "idle"
    /\ \E csv \in CsvFiles :
         LET recs == valid_records(csv)
         IN  pop' = IF recs = <<>>
                    THEN [pop EXCEPT !.pc = "done", !.ret = returned(0, FALSE)]
                    ELSE [pop EXCEPT !.pc = "batch", !.records = recs,
                                     !.attempts = [b \in 1..batches_of(Len(recs)) |-> 0],
                                     !.started = <<Len(fact_prices)>>]
    /\ clock' = clock + 1
    /\ UNCHANGED <<running, auxVars, fact_prices, harga_pangan, liveVars, mig, leg, lost>>

\* a batch whose insert and commit succeed
PopBatchCommit ==
    /\ pop.pc = "batch"
    /\ LET done == pop_exec(Len(pop_batch))
       IN  /\ ~done.raised
           /\ fact_prices' = done.rows
           /\ pop' = pop_after_commit(done.rows, done.rowcount)
    /\ UNCHANGED <<running, auxVars, harga_pangan, clock, liveVars, mig, leg, lost>>

\* a batch whose insert raises after n records (n = all: the commit raises);
\* constraint: the message of the error names a constraint.  With conflict
\* handling on and such a message the batch is rolled back and retried
\* without the conflict clause; every other error ends the run
PopBatchRaise ==
    /\ pop.pc = "batch"
    /\ \E n \in 0..Len(pop_batch), constraint \in BOOLEAN :
         LET done == pop_exec(n)
         IN  /\ done.raised => constraint
             /\ IF retries(pop.use_conflict_handling, constraint)
                THEN /\ pop' = [pop EXCEPT !.pc = "retry",
                                           !.use_conflict_handling = FALSE,
                                           !.attempts[pop_batch_num] = @ + 1,
                                           !.open = rollback(written(done.rows))]
                     /\ lost' = lost
                ELSE /\ pop' = [pop_give_up EXCEPT !.open = written(done.rows)]
                     /\ lost' = lost \cup {pop_batch[k] : k \in 1..Len(pop_batch)}
    /\ UNCHANGED <<running, auxVars, fact_prices, harga_pangan, clock, liveVars, mig, leg>>

\* the retry of the batch without conflict clause succeeds
PopRetryCommit ==
    /\ pop.pc = "retry"
    /\ LET done == executemany_plain(pop_view, pop_batch)
       IN  /\ ~done.raised
           /\ fact_prices' = done.rows
           /\ pop' = pop_after_commit(done.rows, done.rowcount)
    /\ UNCHANGED <<running, auxVars, harga_pangan, clock, liveVars, mig, leg, lost>>

\* the retry raises, on a collision or after n records: the run ends
PopRetryRaise ==
    /\ pop.pc = "retry"
    /\ \E n \in 0..Len(pop_batch) :
         LET done == executemany_plain(pop_view, SubSeq(pop_batch, 1, n))
         IN  pop' = [pop_give_up EXCEPT !.open = written(done.rows)]
    /\ lost' = lost \cup {pop_batch[k] : k \in 1..Len(pop_batch)}
    /\ UNCHANGED <<running, auxVars, fact_prices, harga_pangan, clock, liveVars, mig, leg>>

(***************************************************************************)
(* The resolver loop of insert_to_db on one frame                          *)
(***************************************************************************)

\* records, skipped and skip_reasons after the loop over df.iterrows(); the
\* backfill passes is_category = False exactly with the subcommodity_name
\* column
Resolve ==
    /\ "resolve" \in running
    /\ res.pc = "idle"
    /\ \E df \in ResolverFrames :
         LET is_category == ~df.has_subcommodity_name
         IN  res' = [pc |-> "done", df |-> df, is_category |-> is_category,
                     out |-> resolve_rows(df, is_category, province_map,
                                          subcategory_map, 1)]
    /\ UNCHANGED <<running, db, moreVars, runs, parsed, fact_prices, harga_pangan, clock, liveVars, mig, leg, pop,
                   lost>>

\* one response through transform_wide_to_long and through
\* transform_to_long_format
Parse ==
    /\ "parse" \in running
    /\ parsed.pc = "idle"
    /\ \E data \in ParserResponses :
         LET wide == transform_wide_to_long(wide_items(data))
         IN  parsed' = [pc |-> "done", data |-> data,
                        wide |-> [k \in 1..Len(wide) |->
                                    [provinsi |-> wide[k].provinsi,
                                     tanggal |-> wide[k].tanggal,
                                     harga |-> Some(wide[k].harga)]],
                        long |-> transform_to_long_format(data)]
    /\ UNCHANGED <<running, res, moreVars, db, runs, fact_prices, harga_pangan, clock, liveVars, mig,
                   leg, pop, lost>>

\* one column key through the classification and the date parse of
\* transform_wide_to_long
NormalizeDate ==
    /\ "dates" \in running
    /\ dated.pc = "idle"
    /\ \E key \in DailyKeys \cup MonthlyKeys :
         dated' = [pc |-> "done", key |-> key, date_type |-> date_type_of(key),
                   tanggal |-> parse_date_key(date_type_of(key), key)]
    /\ UNCHANGED <<running, res, db, runs, parsed, drv, fact_prices, harga_pangan, clock,
                   liveVars, mig, leg, pop, lost>>

Next ==
    \/ Resolve
    \/ NormalizeDate
    \/ Parse
    \/ ConnLost
    \/ RaceExec
    \/ RaceCommit
    \/ ReconnectFail
    \/ InsertBegin
    \/ BatchCommit
    \/ BatchFail
    \/ MigrateStart
    \/ MigrateChunk
    \/ MigrateChunkFail
    \/ MigrateAgain
    \/ InsertData
    \/ InsertDataRaise
    \/ PopulateBegin
    \/ PopBatchCommit
    \/ PopBatchRaise
    \/ PopRetryCommit
    \/ PopRetryRaise

Spec == Init /\ [][Next]_vars

\* legacy tables for the run of the migration to its end: empty; resolvable
\* and skipped rows mixed; a skipped row first; two rows of one natural key;
\* skipped rows only; one row
FairTables ==
    { <<>>,
      << legacy_row(Aceh, ISO20, Some(14500), Some("daily")),
         legacy_row(Riau, ISO20, Some(9000), Some("daily")),
         legacy_row(Aceh, ISO21, NULL, Some("daily")),
         legacy_row(Bali, ISO20, Some(15000), Some("daily")) >>,
      << legacy_row(Riau, ISO20, Some(9000), Some("daily")),
         legacy_row(Aceh, ISO20, Some(14500), Some("daily")) >>,
      << legacy_row(Aceh, ISO20, Some(14500), Some("daily")),
         legacy_row(Aceh, ISO20, Some(14700), NULL),
         legacy_row(Bali, ISO20, Some(15000), Some("daily")) >>,
      << legacy_row(Aceh, ISO21, NULL, Some("daily")),
         legacy_row(Riau, ISO20, Some(9000), Some("daily")) >>,
      << legacy_row(Bali, ISO20, Some(15000), Some("daily")) >> }

\* the migration on its own, over one of these tables
FairInit == Init /\ running = {"migrate"} /\ harga_pangan \in FairTables

FairNext == MigrateStart \/ MigrateChunk \/ MigrateChunkFail \/ MigrateAgain

\* the migration script is a running process: migrate_all goes on to its
\* loop, and each iteration of the loop is carried out
FairSpec ==
    FairInit /\ [][FairNext]_vars /\ WF_vars(MigrateStart) /\ WF_vars(MigrateChunk)

(***************************************************************************)
(* Properties                                                              *)
(***************************************************************************)

IsPrefix(a, b) == Len(a) <= Len(b) /\ SubSeq(b, 1, Len(a)) = a

RECURSIVE IsSubseqOf(_, _)
IsSubseqOf(a, b) ==
    IF a = <<>> THEN TRUE
    ELSE IF b = <<>> THEN FALSE
    ELSE IF Head(a) = Head(b) THEN IsSubseqOf(Tail(a), Tail(b))
    ELSE IsSubseqOf(a, Tail(b))

\* the rows a step appends to a table
Appended(old, new) == SubSeq(new, Len(old) + 1, Len(new))

SameFact(r, q) ==
    /\ r.province_id = q.province_id
    /\ r.commodity_id = q.commodity_id
    /\ r.subcategory_id = q.subcategory_id
    /\ r.market_type_id = q.market_type_id
    /\ r.tanggal = q.tanggal
    /\ r.report_type = q.report_type

SameLegacy(r, q) ==
    /\ r.provinsi = q.provinsi
    /\ r.tanggal = q.tanggal
    /\ r.commodity_category = q.commodity_category
    /\ r.report_type = q.report_type
    /\ r.market_type_id = q.market_type_id

\* a step of the live call
LiveStep == liveVars' # liveVars

\* a step of the live call that commits a batch
LiveCommit == pc = "batch" /\ i' # i

C2_Idempotent ==
    [][(LiveStep /\ cur'.again) =>
          /\ fact_prices' = fact_prices
          /\ (ret'.kind = "return" => ret'.value = 0)]_vars

\* a category-level item with several records has been run again to its end
C2_Witness ==
    /\ running = {"live"}
    /\ cur.again /\ cur.is_category
    /\ pc = "idle" /\ ret.kind = "return" /\ ~ret.failed
    /\ Len(records) >= 2
    /\ Len(fact_prices) >= 2

\* C3: under the ignore policy a candidate whose natural key is stored leaves
\* the stored rows as they are (price and capture timestamp included), adds
\* no row, and is not counted in the total: this for the batches of
\* insert_to_db / insert_to_database and for insert_data with 'ignore'.
C3_IgnoreKeepsRow ==
    [][/\ LiveCommit =>
            /\ IsPrefix(fact_prices, fact_prices')
            /\ total_inserted' - total_inserted = Len(fact_prices') - Len(fact_prices)
            /\ \A k \in (i + 1)..Min(i', Len(records)) :
                 (\E j \in 1..Len(fact_prices) :
                      SameFact(fact_prices[j], fact_row(records[k], clock)))
                 => \A m \in (Len(fact_prices) + 1)..Len(fact_prices') :
                      ~SameFact(fact_prices'[m], fact_row(records[k], clock))
       /\ (leg' # leg /\ leg'.on_conflict = "ignore" /\ leg'.ret.kind = "return") =>
            /\ IsPrefix(harga_pangan, harga_pangan')
            /\ leg'.ret.value = Len(harga_pangan') - Len(harga_pangan)
            /\ \A k \in 1..Len(leg'.values) :
                 (\E j \in 1..Len(harga_pangan) :
                      SameLegacy(harga_pangan[j], leg'.values[k]))
                 => \A m \in (Len(harga_pangan) + 1)..Len(harga_pangan') :
                      ~SameLegacy(harga_pangan'[m], leg'.values[k])]_vars

\* insert_data with 'ignore' has met a stored key with another price and a
\* later timestamp, and returned 0
C3_Witness ==
    /\ leg.on_conflict = "ignore" /\ leg.ret.kind = "return" /\ leg.ret.value = 0
    /\ harga_pangan = leg.before
    /\ \E k \in 1..Len(leg.values), j \in 1..Len(harga_pangan) :
         /\ SameLegacy(harga_pangan[j], leg.values[k])
         /\ harga_pangan[j].harga # leg.values[k].harga
         /\ harga_pangan[j].scraped_at # leg.values[k].scraped_at

\* C4: under the overwrite policy a collision changes only the price and the
\* capture timestamp of the stored row, and only the overwrite policy value
\* ('update') selects that behaviour: under every other value the stored rows
\* are left as they were.
C4_OverwriteOnlyByPolicy ==
    leg.ret.kind = "return" =>
        /\ Len(harga_pangan) >= Len(leg.before)
        /\ \A j \in 1..Len(leg.before) :
             /\ [harga_pangan[j] EXCEPT !.harga = leg.before[j].harga,
                                        !.scraped_at = leg.before[j].scraped_at]
                = leg.before[j]
             /\ leg.on_conflict # "update" => harga_pangan[j] = leg.before[j]

\* C5: the count a call returns is the number of rows the call stored, for
\* insert_to_db / insert_to_database, for populate_database and for the count
\* of a chunk of migrate_chunk.
C5_CountIsStored ==
    /\ (running = {"live"} /\ pc = "idle" /\ ret.kind = "return")
          => ret.value = Len(fact_prices) - base
    /\ (pop.pc = "done" /\ pop.started # <<>>)
          => pop.ret.value = Len(fact_prices) - pop.started[1]
    /\ running = {"migrate"} => mig.migrated = mig.stored

\* C6: batches are committed one at a time in submission order; when the
\* write of a batch fails, what the earlier batches committed stays and no
\* row of the failed batch is ever stored.
C6_BatchesIndependent ==
    [][/\ IsPrefix(fact_prices, fact_prices')
       /\ LiveCommit =>
            IsSubseqOf(Appended(fact_prices, fact_prices'),
                       [k \in 1..(Min(i + (IF cur.fn = "insert_to_db" THEN batch_size
                                           ELSE Len(records)), Len(records)) - i)
                          |-> fact_row(records[i + k], clock)])
       /\ (pop.pc \in {"batch", "retry"} /\ pop'.i # pop.i) =>
            IsSubseqOf(Appended(fact_prices, fact_prices'),
                       [k \in 1..(Min(pop.i + batch_size, Len(pop.records)) - pop.i)
                          |-> fact_row(pop.records[pop.i + k], clock)])
       /\ (pc = "batch" /\ ret'.failed) => fact_prices' = fact_prices
       /\ (pop.pc # "done" /\ pop'.ret.failed) => fact_prices' = fact_prices
       /\ \A j \in 1..Len(fact_prices') : fact_prices'[j] \notin lost']_vars

\* the second batch of a call of insert_to_db failed after the first batch
\* had committed its two rows
C6_Witness ==
    /\ running = {"live"}
    /\ pc = "idle" /\ ret.failed /\ ret.batch_index = 2
    /\ cur.fn = "insert_to_db"
    /\ Len(fact_prices) - base = 2
    /\ lost # {}

\* C7: a batch write that fails for good is propagated to the caller as a
\* failure with the batch index and size; the call never ends with a return
\* value as if it had succeeded.
C7_FailurePropagates ==
    /\ ret.failed => (ret.kind = "raise" /\ ret.batch_index >= 1 /\ ret.batch_len >= 1)
    /\ pop.ret.failed => (pop.ret.kind = "raise" /\ pop.ret.batch_index >= 1
                          /\ pop.ret.batch_len >= 1)

\* C8: in populate_database a failing batch is rolled back and retried at
\* most once, without the conflict clause; no batch is attempted more than
\* twice, a second failure of a batch ends the run as a failure, and the
\* batches committed before it stay committed with nothing of the failed one.
C8_RetryOnce ==
    /\ \A b \in DOMAIN pop.attempts : pop.attempts[b] <= 2
    /\ pop.pc = "retry" =>
          /\ ~pop.use_conflict_handling
          /\ pop.open = <<>>
          /\ pop.attempts[pop_batch_num] = 1
    /\ \A b \in DOMAIN pop.attempts :
          (pop.attempts[b] = 2 /\ b >= pop_batch_num) => (pop.pc = "done" /\ pop.ret.failed)
    /\ (pop.pc = "done" /\ pop.ret.failed) =>
          /\ Len(fact_prices) = pop.started[Len(pop.started)]
          /\ Len(fact_prices) = pop.started[1] + pop.total_inserted

\* the second batch failed, was retried and failed again, after the first
\* batch had committed its two rows
C8_Witness ==
    /\ pop.pc = "done" /\ pop.ret.failed
    /\ Len(pop.attempts) = 2 /\ pop.attempts[2] = 2
    /\ Len(fact_prices) = 2

\* C9: the loop of migrate_all ends only when the legacy table is exhausted:
\* a chunk whose rows are all skipped does not end it, the offset moves past
\* it and every resolvable row of the later chunks is migrated.
C9_AllSkippedAdvances ==
    mig.pc = "done" =>
        /\ mig.offset >= Len(harga_pangan)
        /\ mig.total_migrated = Len(transform_chunk(harga_pangan, 0))

\* C10: for a legacy table of R rows, K of them resolvable, and a chunk size
\* c that divides R, migrate_all without dry_run reports K migrated rows and
\* ends after exactly R / c chunk reads.
C10_Completeness ==
    (mig.pc = "done" /\ ~mig.dry_run /\ Len(harga_pangan) % mig.chunk_size = 0) =>
        /\ mig.total_migrated = Len(transform_chunk(harga_pangan, 0))
        /\ mig.chunk_num = Len(harga_pangan) \div mig.chunk_size

\* C11: with dry_run the migration never writes, commits or re-counts the
\* fact store, and the chunks it reads and the per-chunk and cumulative counts
\* it reports are those of a run without dry_run: at every offset they are
\* the same function of the legacy table, whatever dry_run is.
C11_DryRunWritesNothing ==
    running = {"migrate"} =>
        /\ mig.dry_run =>
             /\ fact_prices = <<>>
             /\ IsNull(mig.new_count)
             /\ mig.stored = 0 /\ mig.committed = 0
        /\ mig.pc \in {"loop", "done"} =>
             /\ mig.total_migrated
                  = Len(transform_chunk(read_chunk(harga_pangan, 0, mig.offset), 0))
             /\ mig.chunk_num
                  = mig.offset \div mig.chunk_size + (IF mig.pc = "done" THEN 1 ELSE 0)
             /\ (mig.pc = "loop" /\ mig.chunk_num > 0) =>
                  mig.migrated
                    = Len(transform_chunk(read_chunk(harga_pangan,
                                                     mig.offset - mig.chunk_size,
                                                     mig.chunk_size), 0))

\* a dry run over a table with resolvable rows in several chunks has ended
C11_Witness ==
    /\ running = {"migrate"}
    /\ mig.dry_run /\ mig.pc = "done"
    /\ mig.chunk_num >= 3 /\ mig.total_migrated >= 2
    /\ fact_prices = <<>>

\* the fact store an uninterrupted migrate_all leaves behind
RECURSIVE MigratedFrom(_, _, _, _)
MigratedFrom(table, c, offset, store) ==
    LET t == transform_chunk(read_chunk(table, offset, c), 0)
    IN  IF t = <<>> THEN store
        ELSE MigratedFrom(table, c, offset + c, executemany_do_nothing(store, t).rows)

\* C12: the rows of every committed chunk stay in the fact store when the
\* migration is interrupted, and a migration that is run again over the same
\* legacy table ends with the fact store of one uninterrupted migration.
C12_Resumable ==
    (running = {"migrate"} /\ ~mig.dry_run) =>
        /\ \A r \in { transform_chunk(read_chunk(harga_pangan, 0, mig.committed), 0)[k] :
                        k \in 1..Len(transform_chunk(
                                       read_chunk(harga_pangan, 0, mig.committed), 0)) } :
             \E j \in 1..Len(fact_prices) : SameFact(fact_prices[j], r)
        /\ mig.pc = "done" =>
             fact_prices = MigratedFrom(harga_pangan, mig.chunk_size, 0, <<>>)

\* a migration interrupted after a committed chunk has been run again to its
\* end
C12_Witness ==
    /\ running = {"migrate"}
    /\ mig.resumed /\ mig.pc = "done" /\ ~mig.dry_run
    /\ mig.committed >= 1
    /\ Len(fact_prices) >= 2
    /\ mig.total_migrated > Len(fact_prices)

\* the skip reason of one row when the checks are made in the order region,
\* subcategory (subcategory-level rows only), price; "none" for a candidate.
\* The commodity and market channel checks come between them in that order
\* and have no reason of their own in insert_to_db.
FirstFailing(df, is_category, row) ==
    IF IsNull(Lookup(province_map, row.provinsi)) THEN "no_province"
    ELSE IF ~is_category /\ (IsNull(df.subcommodity_name) \/ df.subcommodity_name = Some(""))
         THEN "no_subcat_name"
    ELSE IF ~is_category /\ IsNull(Lookup(subcategory_map, Val(df.subcommodity_name)))
         THEN "unmapped_subcat"
    ELSE IF IsNull(row.harga) THEN "no_price"
    ELSE "none"

\* C13: the resolver classifies every record by the first failing check in
\* the order region, commodity, subcategory (subcategory-level records only),
\* market channel, price: each skip reason counts the records whose first
\* failing check it is.
C13_ResolverOrder ==
    res.pc = "done" =>
        \A reason \in DOMAIN no_skips :
            res.out.skip_reasons[reason]
              = Cardinality({ k \in 1..Len(res.df.rows) :
                                FirstFailing(res.df, res.is_category, res.df.rows[k])
                                  = reason })

\* the rows of a chunk the resolver of migrate_chunk skips for a reason
MigrationSkips(rows, reason) ==
    Cardinality({ k \in 1..Len(rows) :
        reason = (IF Falsy(Lookup(province_lookup, rows[k].provinsi)) THEN "no_province"
                  ELSE IF Falsy(Lookup(commodity_lookup, rows[k].commodity_category))
                       THEN "no_commodity"
                  ELSE IF Falsy(Lookup(market_type_lookup, rows[k].market_type_id))
                       THEN "no_market_type"
                  ELSE IF IsNull(rows[k].harga) THEN "no_price"
                  ELSE "none") })

\* C14: every record given to the resolver becomes one candidate or adds one
\* to one skip-reason counter, so candidates and counters sum to the records
\* given, and every skipped record is reported under its reason: for the
\* frame of insert_to_db and for the chunk of migrate_chunk.
C14_SkipAccounting ==
    /\ res.pc = "done" =>
         /\ Len(res.out.records) + res.out.skipped = Len(res.df.rows)
         /\ res.out.skipped
              = res.out.skip_reasons.no_province + res.out.skip_reasons.no_price
                + res.out.skip_reasons.no_subcat_name + res.out.skip_reasons.unmapped_subcat
    /\ (running = {"migrate"} /\ mig.pc = "done") =>
         LET rows == read_chunk(harga_pangan, mig.offset, mig.chunk_size)
         IN  \A reason \in {"no_province", "no_commodity", "no_market_type", "no_price"} :
                 MigrationSkips(rows, reason) > 0 =>
                     /\ reason \in DOMAIN mig.skips
                     /\ mig.skips[reason] = MigrationSkips(rows, reason)

HasPrice(value) == value # <<>> /\ value # <<"-">>

\* f is the observation of a priced column of some row of some response
PricedSource(f) ==
    \E data \in Responses \cup NegativeResponses \cup DayOneResponses \cup MonthlyResponses :
      \E k \in 1..Len(data) : \E c \in 1..Len(data[k].cols) :
        LET col == data[k].cols[c]
        IN  /\ HasPrice(col[2])
            /\ ParseFloat(Remove(col[2], ",")) = Some(f.harga)
            /\ parse_date_key(date_type_of(col[1]), col[1]) = Some(f.tanggal)
            /\ Lookup(province_map, data[k].name) = Some(f.province_id)

\* f is the migrated form of a legacy row that has a price
FromLegacy(f) ==
    \E j \in 1..Len(harga_pangan) :
        /\ ~IsNull(harga_pangan[j].harga)
        /\ Val(harga_pangan[j].harga) = f.harga
        /\ harga_pangan[j].tanggal = f.tanggal
        /\ Lookup(province_lookup, harga_pangan[j].provinsi) = Some(f.province_id)

\* C16: an observation whose source value is the sentinel "-", empty or null
\* is not emitted by the parser and reaches no store: every candidate and every
\* fact row of the live path is the observation of a priced source column,
\* every fact row of the migration comes from a legacy row with a price, and
\* insert_data writes no row with a null price.
C16_NoPriceNeverStored ==
    /\ running = {"live"} =>
          \A j \in 1..Len(records) : PricedSource(records[j])
    /\ running \cap {"live", "migrate"} # {} =>
          \A j \in 1..Len(view) : PricedSource(view[j]) \/ FromLegacy(view[j])
    /\ running = {"legacy"} =>
          \A j \in 1..Len(harga_pangan) : ~IsNull(harga_pangan[j].harga)

\* a response with a "-" column has been parsed and its other observations
\* stored by the call
C16_Witness ==
    /\ running = {"live"}
    /\ pc = "idle" /\ ret.kind = "return" /\ ~ret.failed
    /\ \E k \in 1..Len(cur.data) : \E c \in 1..Len(cur.data[k].cols) :
          ~HasPrice(cur.data[k].cols[c][2])
    /\ Len(records) = 2
    /\ Len(fact_prices) >= 2

\* a step of the backfill that resolves the records of an item
Resolving ==
    /\ "live" \in running
    /\ pc = "idle"
    /\ clock' = clock + 1
    /\ cur'.fn = "insert_to_db"
    /\ ret'.kind # "raise"

\* the mappings in use were read through the connection in use
MapsOfConnection(d) ==
    /\ d.alive
    /\ d.conn = d.opened
    /\ d.province_map_conn = d.conn
    /\ d.subcategory_map_conn = d.conn

\* C17: when the liveness probe of the backfill fails, the run opens a new
\* connection and reads both mappings it holds again before it resolves or
\* writes another record; no record is resolved or written with a mapping
\* read through an earlier connection.
C17_ReconnectBeforeResolve ==
    [][/\ Resolving => /\ MapsOfConnection(db')
                       /\ ~db.alive => db'.conn > db.opened
       /\ ("live" \in running /\ fact_prices' # fact_prices /\ pc = "batch") =>
             MapsOfConnection(db)]_vars

\* after a dropped connection an item was resolved and its rows were written
\* through the second connection
C17_Witness ==
    /\ "outage" \in running
    /\ db.conn = 2 /\ db.alive
    /\ pc = "idle" /\ ret.kind = "return" /\ ~ret.failed
    /\ ~cur.is_category
    /\ Len(fact_prices) > base

\* C18: when the connection drops while the records of an item are written,
\* the interrupted write is retried after the reconnection: the run does not
\* go on to another item while records of the interrupted item are missing
\* from the fact store.
C18_RetryAfterConnectionLoss ==
    [][("outage" \in running /\ clock' # clock
        /\ ret.kind = "raise" /\ ret.batch_index >= 1) =>
          \A k \in (i + 1)..Len(records) :
             \E j \in 1..Len(fact_prices) :
                natural_key(fact_prices[j]) = natural_key(fact_row(records[k], clock))]_vars

\* the natural keys of the records a run resolved
ResolvedKeys(run) ==
    {natural_key(fact_row(run.records[k], clock)) : k \in 1..Len(run.records)}

\* C19: two backfill runs at once in ignore mode, under every interleaving of
\* their batch writes and commits: the fact store never holds a natural key
\* twice, every stored row was counted by exactly one run, and when both runs
\* have returned the store holds exactly the keys the two runs resolved and
\* the two returned counts add up to the rows stored.
C19_ConcurrentRuns ==
    "race" \in running =>
       /\ \A j, k \in 1..Len(fact_prices) :
             natural_key(fact_prices[j]) = natural_key(fact_prices[k]) => j = k
       /\ runs[1].total_inserted + runs[2].total_inserted = Len(fact_prices)
       /\ (runs[1].pc = "done" /\ runs[2].pc = "done") =>
             /\ {natural_key(fact_prices[j]) : j \in 1..Len(fact_prices)}
                   = ResolvedKeys(runs[1]) \cup ResolvedKeys(runs[2])
             /\ Val(runs[1].ret) + Val(runs[2].ret) = Len(fact_prices)

\* both runs have returned, their records overlap, and each of them stored
\* some of the rows
C19_Witness ==
    /\ "race" \in running
    /\ runs[1].pc = "done" /\ runs[2].pc = "done"
    /\ ResolvedKeys(runs[1]) \cap ResolvedKeys(runs[2]) # {}
    /\ Val(runs[1].ret) > 0 /\ Val(runs[2].ret) > 0

\* a row of the response that stands for all regions
AggregateRow(item) == item.level = Some(0) \/ Contains(item.name, Semua)

\* no observation of out comes from an aggregate row of data
Excluded(data, out) ==
    \A k \in 1..Len(out) :
       \E j \in 1..Len(data) :
          ~AggregateRow(data[j]) /\ data[j].name = out[k].provinsi

\* every priced column with a recognised daily date of a row of data that is
\* not an aggregate row is an observation of out
Contributed(data, out) ==
    \A j \in 1..Len(data) : \A c \in 1..Len(data[j].cols) :
       LET key   == data[j].cols[c][1]
           value == data[j].cols[c][2]
       IN  (/\ ~AggregateRow(data[j])
            /\ HasPrice(value)
            /\ ~IsNull(ParseFloat(Remove(value, ",")))
            /\ ~IsNull(strptime_dmy(key))) =>
              \E k \in 1..Len(out) :
                 /\ out[k].provinsi = data[j].name
                 /\ out[k].tanggal = Val(strptime_dmy(key))
                 /\ out[k].harga = ParseFloat(Remove(value, ","))

\* C20: for any response, no observation in the output of a parser comes from
\* a row of level 0 or a row whose name holds the aggregate sentinel, and
\* every other row contributes the observations of its priced date columns;
\* for transform_wide_to_long and for transform_to_long_format.
C20_AggregateRowsExcluded ==
    parsed.pc = "done" =>
       /\ Excluded(parsed.data, parsed.wide)
       /\ Contributed(parsed.data, parsed.wide)
       /\ Excluded(parsed.data, parsed.long)
       /\ Contributed(parsed.data, parsed.long)

\* the months of the calendar, in order
Calendar ==
    << <<"J", "a", "n">>, <<"F", "e", "b">>, <<"M", "a", "r">>, <<"A", "p", "r">>,
       <<"M", "a", "y">>, <<"J", "u", "n">>, <<"J", "u", "l">>, <<"A", "u", "g">>,
       <<"S", "e", "p">>, <<"O", "c", "t">>, <<"N", "o", "v">>, <<"D", "e", "c">> >>

\* d is YYYY-MM-DD of year y, month m and day n, a day of the calendar
IsIsoDateOf(d, y, m, n) ==
    /\ Len(d) = 10
    /\ d[5] = "-" /\ d[8] = "-"
    /\ \A j \in {1, 2, 3, 4, 6, 7, 9, 10} : d[j] \in Digits
    /\ ToNat(SubSeq(d, 1, 4)) = y
    /\ ToNat(SubSeq(d, 6, 7)) = m
    /\ ToNat(SubSeq(d, 9, 10)) = n
    /\ m \in 1..12
    /\ n \in 1..(IF m = 2 THEN (IF y % 4 = 0 THEN 29 ELSE 28)
                 ELSE IF m \in {4, 6, 9, 11} THEN 30 ELSE 31)

\* C21: transform_wide_to_long maps a daily key DD/MM/YYYY to the ISO date
\* YYYY-MM-DD of the same day and a monthly key Mon YYYY to day 1 of that
\* month; the date emitted is a well-formed calendar date.
C21_DateNormalization ==
    dated.pc = "done" =>
       /\ ~IsNull(dated.tanggal)
       /\ dated.key \in DailyKeys =>
             LET parts == SplitOn(dated.key, "/")
             IN  /\ dated.date_type = "daily"
                 /\ IsIsoDateOf(Val(dated.tanggal), ToNat(parts[3]), ToNat(parts[2]),
                                ToNat(parts[1]))
       /\ dated.key \in MonthlyKeys =>
             LET parts == SplitOn(dated.key, " ")
             IN  /\ dated.date_type = "monthly"
                 /\ \E m \in 1..12 :
                       /\ Calendar[m] = parts[1]
                       /\ IsIsoDateOf(Val(dated.tanggal), ToNat(parts[2]), m, 1)

\* a daily key without leading zeros has been normalised
C21_Witness ==
    /\ dated.pc = "done"
    /\ dated.key = <<"1", "/", "1", "/", "2", "0", "2", "5">>
    /\ dated.tanggal = Some(<<"2", "0", "2", "5", "-", "0", "1", "-", "0", "1">>)

\* a column key that looks like a daily date and is none
MalformedKey(key) == Contains(key, <<"/">>) /\ IsNull(strptime_dmy(key))

HasMalformedKey(data) ==
    \E j \in 1..Len(data) : \E c \in 1..Len(data[j].cols) :
       MalformedKey(data[j].cols[c][1])

\* d is YYYY-MM-DD of some day of the calendar
IsCalendarDate(d) ==
    /\ Len(d) = 10
    /\ \A j \in {1, 2, 3, 4, 6, 7, 9, 10} : d[j] \in Digits
    /\ IsIsoDateOf(d, ToNat(SubSeq(d, 1, 4)), ToNat(SubSeq(d, 6, 7)),
                   ToNat(SubSeq(d, 9, 10)))

\* C22: a malformed date key in one column does not fail the parse of the
\* item: each parser emits nothing for that column, and still emits every
\* well-formed priced observation of the same row and of the other rows.
C22_MalformedKeyDropped ==
    (parsed.pc = "done" /\ HasMalformedKey(parsed.data)) =>
       /\ \A k \in 1..Len(parsed.wide) : IsCalendarDate(parsed.wide[k].tanggal)
       /\ \A k \in 1..Len(parsed.long) : IsCalendarDate(parsed.long[k].tanggal)
       /\ Contributed(parsed.data, parsed.wide)
       /\ Contributed(parsed.data, parsed.long)

\* C23: after a migration without dry_run the driver counts the rows of the
\* fact store and warns exactly when that count is more than 5% below the
\* cumulative migrated count; with or without the warning the run ends
\* normally and returns its total; a dry run neither counts nor warns.
C23_IntegrityWarning ==
    ("migrate" \in running /\ mig.pc = "done") =>
       /\ ~mig.dry_run =>
             /\ ~IsNull(mig.new_count)
             /\ "live" \notin running => mig.new_count = Some(Len(fact_prices))
             /\ mig.warning <=> (20 * Val(mig.new_count) < 19 * mig.total_migrated)
       /\ mig.dry_run => (IsNull(mig.new_count) /\ ~mig.warning)

\* a migration of twenty rows stored nineteen, exactly 95%, and ended without
\* the warning
C23_Witness ==
    /\ "long" \in running
    /\ mig.pc = "done" /\ ~mig.dry_run
    /\ mig.total_migrated = 20 /\ mig.new_count = Some(19)
    /\ ~mig.warning

\* C24: every price in the fact store is a non-negative number: no
\* observation with a negative price is resolved or stored.
C24_NonNegativePrices ==
    /\ \A j \in 1..Len(records) : records[j].harga >= 0
    /\ \A j \in 1..Len(fact_prices) : fact_prices[j].harga >= 0

\* the chunks read so far leave no row of the legacy table out
EveryRowRead == mig.chunk_num * mig.chunk_size >= Len(harga_pangan)

\* the chunks before the offset are committed: what they migrated is stored
ChunksCommitted ==
    LET before == transform_chunk(read_chunk(harga_pangan, 0, mig.offset), 0)
    IN  \A k \in 1..Len(before) :
           \E j \in 1..Len(fact_prices) :
              natural_key(fact_prices[j]) = natural_key(before[k])

\* the offset is a multiple of the chunk size, one chunk per completed chunk,
\* and the cumulative count does not exceed it
OffsetInStep ==
    /\ mig.pc = "loop" => mig.offset = mig.chunk_num * mig.chunk_size
    /\ mig.pc = "done" => mig.offset = (mig.chunk_num - 1) * mig.chunk_size
    /\ mig.total_migrated <= mig.offset

\* C25: migrate_all takes the chunks in order: a chunk is read only when the
\* chunks before it are committed, after k completed chunks the offset is
\* k * chunk_size, the cumulative migrated count never exceeds the offset, and
\* when the run ends every legacy row has been read in exactly one chunk.
C25_ChunksInOrder ==
    ("migrate" \in running /\ mig.pc \in {"loop", "done"}) =>
       /\ OffsetInStep
       /\ ~mig.dry_run => ChunksCommitted
       /\ mig.pc = "done" => EveryRowRead

\* the chunks of the run that migrated rows and let the loop go on
CompletedChunks == IF mig.pc = "done" THEN mig.chunk_num - 1 ELSE mig.chunk_num

\* C26: migrate_all pauses exactly after every 10th completed chunk, before
\* the next chunk is read: at any point the number of pauses is the number of
\* completed chunks divided by 10; the chunk that ends the loop brings none.
C26_PauseEveryTenth ==
    ("migrate" \in running /\ mig.pc \in {"loop", "done"}) =>
       mig.pauses = CompletedChunks \div 10

\* a run of eleven chunk reads has paused once, after its tenth chunk
C26_Witness ==
    /\ "long" \in running
    /\ mig.pc = "done"
    /\ mig.chunk_num = 11
    /\ mig.pauses = 1

\* C27: migrate_all terminates for every finite legacy table and every chunk
\* size, whatever rows are skipped: it never reads more chunks than the table
\* holds plus one, and it comes to its end (or to an exception) and stays
\* there; on an empty table it reads one chunk, writes nothing and reports 0.
C27_Terminates ==
    /\ []("migrate" \in running =>
             mig.chunk_num <= (Len(harga_pangan) + mig.chunk_size - 1)
                                 \div mig.chunk_size + 1)
    /\ []((running = {"migrate"} /\ harga_pangan = <<>> /\ mig.pc = "done") =>
             (mig.chunk_num = 1 /\ mig.total_migrated = 0 /\ fact_prices = <<>>))
    /\ "migrate" \in running => <>[](mig.pc \in {"done", "failed"})

\* a run over a table of resolvable and skipped rows has come to its end
C27_Witness ==
    /\ running = {"migrate"}
    /\ mig.pc = "done"
    /\ Len(harga_pangan) = 4
    /\ mig.total_migrated >= 1
    /\ mig.total_migrated < Len(harga_pangan)
    /\ mig.skips.skipped >= 1

(***************************************************************************)
(* C28: report granularity of the rows of the live path                    *)
(***************************************************************************)

\* the granularity of a request: tipe_laporan 1 is daily, 3 monthly
Granularity(tipe_laporan) == IF tipe_laporan = 3 THEN "monthly" ELSE "daily"

\* a stored row holds the record under the granularity g
StoredUnder(rec, g) ==
    \E j \in 1..Len(fact_prices) :
        /\ fact_prices[j].province_id = rec.province_id
        /\ fact_prices[j].commodity_id = rec.commodity_id
        /\ fact_prices[j].subcategory_id = rec.subcategory_id
        /\ fact_prices[j].market_type_id = rec.market_type_id
        /\ fact_prices[j].tanggal = rec.tanggal
        /\ fact_prices[j].report_type = g

\* C28: every row of the live path carries the granularity of its request,
\* daily or monthly: after a call of insert_to_db that returned without
\* failure, each of its records is stored under the granularity of the
\* request, so a monthly observation of the first of a month and the daily
\* observation of that day are two rows
C28_RequestGranularity ==
    /\ \A j \in 1..Len(fact_prices) : fact_prices[j].report_type \in {"daily", "monthly"}
    /\ ("live" \in running /\ pc = "idle" /\ ret.kind = "return" /\ ~ret.failed) =>
          \A k \in 1..Len(records) : StoredUnder(records[k], Granularity(cur.tipe_laporan))
(***************************************************************************)
(* C29: the subcategory of a row belongs to the commodity of the row       *)
(***************************************************************************)

\* C29: every row stored by the live path with a subcategory id has a
\* subcategory owned by the commodity of the row, also where two commodities
\* own subcategories of the same display name
C29_SubcategoryOwned ==
    "live" \in running =>
        \A j \in 1..Len(fact_prices) :
            IsNull(fact_prices[j].subcategory_id) \/
            \E d \in dim_subcategories :
                /\ d.subcategory_id = Val(fact_prices[j].subcategory_id)
                /\ d.commodity_id = fact_prices[j].commodity_id
(***************************************************************************)
(* C30: the counters of backfill_unified                                   *)
(***************************************************************************)

\* the number of processed items of a kind that ended in one of the outcomes
Processed(is_category, outcomes) ==
    Cardinality({k \in 1..Len(drv.processed) :
                    /\ (drv.processed[k].code \in DOMAIN CATEGORIES) = is_category
                    /\ drv.processed[k].outcome \in outcomes})

\* the sum of the counts insert_to_db returned
RECURSIVE SumReturned(_)
SumReturned(log) ==
    IF log = <<>> THEN 0
    ELSE (IF Head(log).outcome = "return" THEN Head(log).inserted ELSE 0)
         + SumReturned(Tail(log))

\* the k-th item processed is the k-th item of the loops
InLoopOrder ==
    \A k \in 1..Len(drv.processed) :
        /\ drv.processed[k].code = item_order[((k - 1) % Len(item_order)) + 1]
        /\ drv.processed[k].market_id = market_types[((k - 1) \div Len(item_order)) + 1]

\* the last item processed ended as the log says: insert_to_db returned its
\* count, an exception reached the loop body, or the frame was empty
LastAsEnded ==
    (pc = "idle" /\ drv.processed # <<>>) =>
        LET last == drv.processed[Len(drv.processed)]
        IN  /\ last.outcome = "return" <=> ret.kind = "return"
            /\ last.outcome = "raise" <=> ret.kind = "raise"
            /\ last.outcome = "empty" <=> ret.kind = "none"
            /\ last.inserted = ret.value

\* C30: every item processed increments exactly one of the scraped and
\* failed counters of its kind; an item that failed (empty response,
\* exception) is followed by the next item of the loops; scraped plus failed
\* is the number of items processed, per kind, and total_inserted is the sum
\* of the counts returned for the scraped items
C30_ItemAccounting ==
    Driven =>
        /\ drv.stats.categories_scraped = Processed(TRUE, {"return"})
        /\ drv.stats.categories_failed = Processed(TRUE, {"empty", "raise"})
        /\ drv.stats.subcategories_scraped = Processed(FALSE, {"return"})
        /\ drv.stats.subcategories_failed = Processed(FALSE, {"empty", "raise"})
        /\ drv.stats.total_inserted = SumReturned(drv.processed)
        /\ LastAsEnded
        /\ InLoopOrder
        /\ Len(drv.processed) <= Len(market_types) * Len(item_order)
        /\ driver_done <=> Len(drv.processed) = Len(market_types) * Len(item_order)
        /\ (pc = "idle" /\ ~driver_done) => ENABLED InsertBegin
        /\ driver_done =>
              /\ drv.stats.categories_scraped + drv.stats.categories_failed
                    = Len(market_types) * Cardinality(DOMAIN CATEGORIES)
              /\ drv.stats.subcategories_scraped + drv.stats.subcategories_failed
                    = Len(market_types) * Cardinality(DOMAIN SUBCATEGORIES)

\* a run that ended after an empty response, an exception and two scraped
\* items, the last one after the failures
C30_Witness ==
    /\ Driven /\ driver_done /\ pc = "idle"
    /\ \E a, b \in 1..Len(drv.processed) :
          /\ drv.processed[a].outcome = "empty"
          /\ drv.processed[b].outcome = "raise"
          /\ a < Len(drv.processed) /\ b < Len(drv.processed)
    /\ drv.processed[Len(drv.processed)].outcome = "return"
    /\ drv.processed[Len(drv.processed)].inserted >= 1
    /\ drv.stats.total_inserted >= 1
    /\ drv.stats.subcategories_scraped = 1 /\ drv.stats.subcategories_failed = 1
====
